---- MODULE Spec2Model ----
(***************************************************************************)
(* clean-code-react: an MCP server that serves static documents about      *)
(* React design patterns.  The model covers the pattern registry and its   *)
(* accessors (src/patterns/index.ts), the tool handlers (src/tools/*.ts)   *)
(* and the call-tool request handler of the three server variants:         *)
(*   "validated"     src/src/server.ts     (createValidatedHandler, await) *)
(*   "finegrained"   src/unnamed/part_001  (one tool per pattern)          *)
(*   "parameterized" src/unnamed/part_002  (get_pattern with a patternId)  *)
(* together with their list-tools handlers and the process of              *)
(* src/src/index.ts, and getVersion of src/unnamed/part_000.  Seven        *)
(* specifications share the variables:                                     *)
(*   Spec           a running server answering requests                    *)
(*   AccessorSpec   direct calls of the accessors and handlers             *)
(*   HistorySpec    a server and a client that keeps an earlier exchange   *)
(*   FaultSpec      a server whose registered handlers can fail            *)
(*   PipelineSpec   a server with several call-tool requests in flight     *)
(*   LifecycleSpec  the process from its start: main(), SIGINT, exit       *)
(*   VersionSpec    calls of getVersion() over a manifest that can change  *)
(*                                                                         *)
(* Representation of JavaScript values:                                    *)
(*   - a plain object is a TLA+ record;                                    *)
(*   - undefined, null, numbers, strings, arrays and promises that can     *)
(*     stand where an object can are records with a tag field t;           *)
(*   - an (ordered) object literal used as a map is a sequence of          *)
(*     [key, value] entries, in insertion order;                           *)
(*   - a message built by a template literal is the sequence of its parts, *)
(*     denoting their concatenation;                                       *)
(*   - the result of running a function is an outcome: it returns a value  *)
(*     or throws an error, and lists the repository functions it called.   *)
(***************************************************************************)
EXTENDS Integers, Sequences, FiniteSets, TLC

\* Bounds of the model.
MaxRequests == 3   \* call-tool requests received in one run of a server
MaxCalls == 2      \* direct accessor calls in one run of the unit harness
MaxSigints == 2    \* SIGINTs delivered to one process
MaxInFlight == 2   \* call-tool requests a client has in flight at once

(***************************************************************************)
(* Pattern documents (src/patterns/*.ts).  Of a detailed document the      *)
(* model keeps name, examples and relatedPatterns; the other prose fields  *)
(* are left out.  A code sample, written as a template literal in the      *)
(* source, is kept as a string value of its length; characters outside     *)
(* ASCII are left out of titles.                                           *)
(***************************************************************************)
TemplateLiteral(length) == [t |-> "string", length |-> length]

containerPresentationalPattern ==
  [overview |->
     [name |-> "Container/Presentational Pattern",
      description |->
        "A foundational React pattern that separates components into two distinct types: smart containers that handle data, state, and business logic, and dumb presentational components that focus purely on rendering UI. This separation creates cleaner, more maintainable, and testable code by establishing clear boundaries between data management and visual presentation.",
      whenToUse |->
        "Use when you have components mixing data fetching with UI logic, need to reuse UI components with different data sources, want to improve testability by isolating pure UI components, are building complex forms or data-heavy interfaces, have components that are becoming too large and handling multiple responsibilities, or need to share the same UI component across different parts of your application with different data sources."],
   detailed |->
     [name |-> "Container/Presentational Pattern",
      examples |->
        <<[title |-> "User List Implementation",
          description |-> "Comparing mixed concerns vs separated container/presentational components",
          comparison |->
            [bad |-> [title |-> "Mixed Concerns",
                  description |-> "Component mixing data logic with presentation - hard to test and reuse",
                  code |-> TemplateLiteral(1110)],
             good |-> [title |-> "Separated Concerns",
                  description |-> "Clear separation between data logic and presentation",
                  code |-> TemplateLiteral(1422)]]]>>,
      relatedPatterns |-> <<"compound-component">>]]

renderPropsPattern ==
  [overview |->
     [name |-> "Render Props Pattern",
      description |->
        "A powerful React pattern that enables code sharing between components by using a prop whose value is a function that returns React elements. This pattern provides maximum flexibility by allowing the consuming component to control what gets rendered while the render prop component handles all the stateful logic and behavior.",
      whenToUse |->
        "Use when you need to share complex stateful logic (like data fetching, mouse tracking, or form handling) across multiple components but want consumers to have complete control over the UI, when building reusable library components that need to work with any UI design, when you have logic that needs to work with multiple different rendering strategies, or when you want to avoid the limitations of higher-order components while maintaining composability and avoiding prop drilling."],
   detailed |->
     [name |-> "Render Props Pattern",
      examples |->
        <<[title |-> "Bad: Tight Coupling",
          description |-> "Component tightly coupled to specific UI implementation",
          code |-> TemplateLiteral(1144)],
         [title |-> "Good: Flexible with Render Props",
          description |-> "Reusable logic with flexible rendering through render props",
          code |-> TemplateLiteral(1477)]>>,
      relatedPatterns |-> <<"higher-order-component", "compound-component">>]]

compoundComponentPattern ==
  [overview |->
     [name |-> "Compound Component Pattern",
      description |->
        "A sophisticated React pattern that creates a family of components that work together to form a complete UI pattern, using React Context to implicitly share state and behavior. This pattern allows for highly flexible and intuitive APIs where child components can be composed in any order while maintaining their interconnected functionality.",
      whenToUse |->
        "Use when building complex UI components like modals, accordions, tabs, or dropdowns that have multiple interconnected parts, when you want to provide maximum flexibility in how components are arranged and styled, when building reusable component libraries that need to work across different design systems, when you need to avoid prop drilling through multiple levels of components, or when you want to create APIs that feel natural and declarative like HTML elements."],
   detailed |->
     [name |-> "Compound Component Pattern",
      examples |->
        <<[title |-> "BAD: Tightly Coupled Accordion",
          description |-> "Accordion with hardcoded structure and poor reusability",
          code |-> TemplateLiteral(1547)],
         [title |-> "GOOD: Flexible Compound Component",
          description |-> "Accordion using compound component pattern for maximum flexibility",
          code |-> TemplateLiteral(2780)]>>,
      relatedPatterns |-> <<"render-props", "higher-order-component">>]]

higherOrderComponentPattern ==
  [overview |->
     [name |-> "Higher-Order Component (HOC)",
      description |->
        "A classic React pattern that uses functions to take a component as input and return a new enhanced component with additional props, state, or behavior. HOCs enable code reuse and separation of cross-cutting concerns by wrapping components with shared functionality, creating a powerful composition pattern for extending component capabilities.",
      whenToUse |->
        "Use when you need to add cross-cutting concerns like authentication, authorization, logging, or error boundaries to multiple components, when building component libraries that need consistent behavior across many components, when you need to conditionally render components based on external state, when working with legacy codebases that do not use hooks, or when you need to enhance third-party components that you cannot modify directly."],
   detailed |->
     [name |-> "Higher-Order Component (HOC) Pattern",
      examples |->
        <<[title |-> "BAD: Duplicated Logic Across Components",
          description |-> "Components with repeated authentication and loading logic",
          code |-> TemplateLiteral(1802)],
         [title |-> "GOOD: HOC for Shared Cross-Cutting Concerns",
          description |-> "HOC that provides authentication and loading logic to multiple components",
          code |-> TemplateLiteral(2207)],
         [title |-> "GOOD: Composable HOCs with TypeScript",
          description |-> "Type-safe HOCs that can be composed together",
          code |-> TemplateLiteral(2889)]>>,
      relatedPatterns |-> <<"render-props", "compound-component">>]]

dependencyInjectionPattern ==
  [overview |->
     [name |-> "Dependency Injection Pattern",
      description |->
        "A fundamental design pattern that provides dependencies to components from external sources rather than having components create or import them directly. This pattern promotes loose coupling, enhances testability, and enables flexible configuration by allowing dependencies to be swapped out without modifying component code.",
      whenToUse |->
        "Use when components depend on external services, APIs, or utilities that need to be mocked during testing, when building applications that need to work in different environments (development, staging, production) with different configurations, when you want to make components more reusable by removing hard dependencies, when implementing feature flags or A/B testing that requires swapping implementations, or when building modular applications where different parts might use different service implementations."],
   detailed |->
     [name |-> "Dependency Injection Pattern",
      examples |->
        <<[title |-> "BAD: Hard-Coded Dependencies",
          description |-> "Components tightly coupled to specific implementations",
          code |-> TemplateLiteral(2181)],
         [title |-> "GOOD: Dependency Injection with Interfaces",
          description |-> "Flexible, testable components using dependency injection",
          code |-> TemplateLiteral(4251)],
         [title |-> "GOOD: Context-Based Dependency Injection",
          description |-> "Using React Context for app-wide dependency injection",
          code |-> TemplateLiteral(2858)]>>,
      relatedPatterns |-> <<"service-layer", "adapter-pattern">>]]

serviceLayerPattern ==
  [overview |->
     [name |-> "Service Layer Pattern",
      description |->
        "An architectural pattern that encapsulates business logic, API communications, and data transformations into dedicated service modules, creating a clean separation between the presentation layer and business logic. This pattern centralizes complex operations, provides consistent interfaces, and makes applications more maintainable and testable.",
      whenToUse |->
        "Use when your application has complex business logic that should not live in components, when you need to interact with multiple APIs or data sources, when you want to centralize error handling and caching strategies, when building applications that need to work offline or sync data, when you have data transformation logic that is reused across multiple components, or when you need to implement complex validation, authentication, or authorization logic."],
   detailed |->
     [name |-> "Service Layer Pattern",
      examples |->
        <<[title |-> "BAD: Business Logic Mixed with UI",
          description |-> "Components handling API calls and business logic directly",
          code |-> TemplateLiteral(4282)],
         [title |-> "GOOD: Clean Service Layer Separation",
          description |-> "Business logic and API calls abstracted into service layer",
          code |-> TemplateLiteral(6711)]>>,
      relatedPatterns |-> <<"dependency-injection", "adapter-pattern">>]]

adapterPattern ==
  [overview |->
     [name |-> "Adapter Pattern",
      description |->
        "A structural design pattern that creates a unified interface for working with external systems, APIs, or legacy code that have incompatible interfaces. Adapters translate between different data formats, method signatures, and protocols, allowing your application to work seamlessly with external services without tight coupling.",
      whenToUse |->
        "Use when integrating with third-party APIs that have different data structures than your application expects, when you need to support multiple payment providers, authentication systems, or data sources with different interfaces, when migrating from legacy systems while maintaining backward compatibility, when you want to insulate your application from changes in external APIs, or when building applications that need to work with multiple versions of the same external service."],
   detailed |->
     [name |-> "Adapter Pattern",
      examples |->
        <<[title |-> "Payment Provider Integration",
          description |-> "Comparing direct API coupling vs unified adapter interface",
          comparison |->
            [bad |-> [title |-> "Direct External API Coupling",
                  description |-> "Component directly handles different API formats leading to tight coupling",
                  code |-> TemplateLiteral(4073)],
             good |-> [title |-> "Adapter Pattern for Unified Interface",
                  description |-> "Adapters provide consistent interface across different payment providers",
                  code |-> TemplateLiteral(7380)]]],
         [title |-> "API Response Transformation",
          description |-> "Comparing direct API usage vs adapter pattern for normalizing different external API formats",
          comparison |->
            [bad |-> [title |-> "Direct API Usage with Format Handling",
                  description |-> "Components directly handle different API response formats causing code duplication and maintenance issues",
                  code |-> TemplateLiteral(4113)],
             good |-> [title |-> "API Response Transformation Adapter",
                  description |-> "Adapters normalize different external API response formats into consistent internal format",
                  code |-> TemplateLiteral(6663)]]]>>,
      relatedPatterns |-> <<"service-layer", "dependency-injection">>]]

declarativeProgrammingPattern ==
  [overview |->
     [name |-> "Declarative Programming Pattern",
      description |->
        "Transform imperative code into declarative React patterns by describing what the UI should look like rather than how to achieve it. This includes conditional rendering with Suspense and ErrorBoundary, state transformations with derived values, event handling with declarative patterns, and data flow that emphasizes intent over implementation details.",
      whenToUse |->
        "Use when you have complex imperative logic scattered throughout components, when you want to standardize loading/error/success states, when building reusable UI patterns, when you need to reduce cognitive load by making component intentions explicit, when you want to leverage React's built-in optimizations, or when you need to make code more testable and predictable by removing side effects and manual DOM manipulation."],
   detailed |->
     [name |-> "Declarative Programming Pattern",
      examples |->
        <<[title |-> "Conditional Rendering Patterns",
          description |-> "Comparing imperative conditional logic with declarative component patterns",
          comparison |->
            [bad |-> [title |-> "Imperative Conditional Logic",
                  description |-> "Complex nested conditions making component logic hard to follow",
                  code |-> TemplateLiteral(2357)],
             good |-> [title |-> "Declarative with Components",
                  description |-> "Clean declarative approach using Suspense, ErrorBoundary, and conditional components",
                  code |-> TemplateLiteral(2757)]]],
         [title |-> "Event Handling and State Management",
          description |-> "Comparing imperative event handling with declarative state flow patterns",
          comparison |->
            [bad |-> [title |-> "Imperative Event Handling & State",
                  description |-> "Manual event handling and imperative state updates",
                  code |-> TemplateLiteral(2503)],
             good |-> [title |-> "Declarative State & Event Flow",
                  description |-> "Declarative approach using derived state and clean data flow",
                  code |-> TemplateLiteral(3221)]]]>>,
      relatedPatterns |-> <<"container-presentational", "compound-component">>]]

propDrillingSolutionsPattern ==
  [overview |->
     [name |-> "Prop Drilling Solutions Pattern",
      description |->
        "Address the problem of prop drilling (passing props through multiple component layers) using various React patterns including Context, component composition, state co-location, custom hooks, and render props. Choose the right solution based on your specific use case to maintain clean, maintainable component hierarchies.",
      whenToUse |->
        "Use when you find yourself passing props through multiple component layers that don't use those props themselves, when you have deeply nested component trees with shared state, when building reusable component libraries that need flexible data access, when you want to avoid tightly coupling components to specific prop shapes, or when you need to share stateful logic across components without complex prop threading."],
   detailed |->
     [name |-> "Prop Drilling Solutions Pattern",
      examples |->
        <<[title |-> "Prop Drilling vs Context Solutions",
          description |-> "Comparing prop drilling problems with appropriate solutions like Context, composition, and state co-location",
          comparison |->
            [bad |-> [title |-> "Deep Prop Drilling",
                  description |-> "Props passed through components that don't need them",
                  code |-> TemplateLiteral(1985)],
             good |-> [title |-> "Multiple Solutions Applied",
                  description |-> "Using the right pattern for each data sharing need",
                  code |-> TemplateLiteral(3513)]]]>>,
      relatedPatterns |-> <<"compound-component", "render-props", "container-presentational">>]]

builderPattern ==
  [overview |->
     [name |-> "Builder Pattern",
      description |->
        "Create complex objects or configurations step by step using a fluent interface. In React/TypeScript contexts, this pattern is useful for building component configurations, form schemas, API query builders, and complex state objects with optional properties and validation.",
      whenToUse |->
        "Use when you need to construct complex objects with many optional parameters, when you want to provide a fluent API for configuring components or services, when building form schemas or validation rules, when creating API query builders or request configurations, when you need to ensure object construction follows specific rules or validation, or when you want to make complex object creation more readable and maintainable."],
   detailed |->
     [name |-> "Builder Pattern",
      examples |->
        <<[title |-> "Bad: Complex Constructor Parameters",
          description |-> "Hard-to-use constructors with many optional parameters",
          code |-> TemplateLiteral(2053)],
         [title |-> "Good: Builder Pattern Implementation",
          description |-> "Fluent builders for readable and type-safe object construction",
          code |-> TemplateLiteral(5578)]>>,
      relatedPatterns |-> <<"adapter-pattern", "dependency-injection">>]]

\* factoryPattern with a related pattern that names an unregistered document
factoryPattern_RelatedToStrategy ==
  [overview |->
     [name |-> "Factory Pattern",
      description |->
        "Create objects or React components through factory functions/classes without specifying exact classes or types. This pattern provides a way to encapsulate object creation logic, handle complex instantiation scenarios, and create different variants of components or services based on runtime conditions.",
      whenToUse |->
        "Use when you need to create different types of components based on runtime data, when object creation logic is complex or needs to be centralized, when you want to abstract the creation process from the consuming code, when building plugin systems or extensible architectures, when you need to create objects that require specific initialization or configuration, or when you want to provide a consistent interface for creating related objects."],
   detailed |->
     [name |-> "Factory Pattern",
      examples |->
        <<[title |-> "Bad: Direct Instantiation Everywhere",
          description |-> "Creation logic scattered throughout components with tight coupling",
          code |-> TemplateLiteral(3465)],
         [title |-> "Good: Factory Pattern Implementation",
          description |-> "Centralized creation logic with factory functions and classes",
          code |-> TemplateLiteral(7278)]>>,
      relatedPatterns |-> <<"builder-pattern", "strategy-pattern", "adapter-pattern">>]]

factoryPattern ==
  [overview |->
     [name |-> "Factory Pattern",
      description |->
        "Create objects or React components through factory functions/classes without specifying exact classes or types. This pattern provides a way to encapsulate object creation logic, handle complex instantiation scenarios, and create different variants of components or services based on runtime conditions.",
      whenToUse |->
        "Use when you need to create different types of components based on runtime data, when object creation logic is complex or needs to be centralized, when you want to abstract the creation process from the consuming code, when building plugin systems or extensible architectures, when you need to create objects that require specific initialization or configuration, or when you want to provide a consistent interface for creating related objects."],
   detailed |->
     [name |-> "Factory Pattern",
      examples |->
        <<[title |-> "Bad: Direct Instantiation Everywhere",
          description |-> "Creation logic scattered throughout components with tight coupling",
          code |-> TemplateLiteral(3465)],
         [title |-> "Good: Factory Pattern Implementation",
          description |-> "Centralized creation logic with factory functions and classes",
          code |-> TemplateLiteral(7278)]>>,
      relatedPatterns |-> <<"builder-pattern", "dependency-injection", "adapter-pattern">>]]

strategyPattern ==
  [overview |->
     [name |-> "Strategy Pattern",
      description |->
        "Define a family of algorithms, encapsulate each one, and make them interchangeable to eliminate if-else chains",
      whenToUse |->
        "When you have complex if-else chains (3+ branches), multiple algorithms for the same task, need runtime algorithm selection, want to avoid code duplication across similar behaviors, need to add new behaviors without modifying existing code, have conditional logic that violates Open-Closed Principle, or want to make algorithms independently testable and maintainable"],
   detailed |->
     [name |-> "Strategy Pattern",
      examples |->
        <<[title |-> "Bad: Complex If-Else Chain",
          description |-> "Payment processing with nested conditionals - hard to maintain and extend",
          code |-> TemplateLiteral(2392)],
         [title |-> "Good: Strategy Pattern",
          description |-> "Clean strategy pattern eliminates if-else chains and makes adding new payment methods easy",
          code |-> TemplateLiteral(2967)]>>,
      relatedPatterns |-> <<"factory-pattern", "dependency-injection", "adapter-pattern", "service-layer">>]]

(***************************************************************************)
(* Strings as character sequences, for the strings the code rewrites or    *)
(* builds character by character (registry keys and tool names).           *)
(***************************************************************************)
Chars(s) ==
  CASE s = "get_" ->
         <<"g", "e", "t", "_">>
    [] s = "_pattern" ->
         <<"_", "p", "a", "t", "t", "e", "r", "n">>
    [] s = "container-presentational" ->
         <<"c", "o", "n", "t", "a", "i", "n", "e", "r", "-", "p", "r", "e", "s", "e", "n", "t", "a", "t", "i", "o", "n", "a", "l">>
    [] s = "render-props" ->
         <<"r", "e", "n", "d", "e", "r", "-", "p", "r", "o", "p", "s">>
    [] s = "compound-component" ->
         <<"c", "o", "m", "p", "o", "u", "n", "d", "-", "c", "o", "m", "p", "o", "n", "e", "n", "t">>
    [] s = "higher-order-component" ->
         <<"h", "i", "g", "h", "e", "r", "-", "o", "r", "d", "e", "r", "-", "c", "o", "m", "p", "o", "n", "e", "n", "t">>
    [] s = "dependency-injection" ->
         <<"d", "e", "p", "e", "n", "d", "e", "n", "c", "y", "-", "i", "n", "j", "e", "c", "t", "i", "o", "n">>
    [] s = "service-layer" ->
         <<"s", "e", "r", "v", "i", "c", "e", "-", "l", "a", "y", "e", "r">>
    [] s = "adapter-pattern" ->
         <<"a", "d", "a", "p", "t", "e", "r", "-", "p", "a", "t", "t", "e", "r", "n">>
    [] s = "declarative-programming" ->
         <<"d", "e", "c", "l", "a", "r", "a", "t", "i", "v", "e", "-", "p", "r", "o", "g", "r", "a", "m", "m", "i", "n", "g">>
    [] s = "prop-drilling-solutions" ->
         <<"p", "r", "o", "p", "-", "d", "r", "i", "l", "l", "i", "n", "g", "-", "s", "o", "l", "u", "t", "i", "o", "n", "s">>
    [] s = "builder-pattern" ->
         <<"b", "u", "i", "l", "d", "e", "r", "-", "p", "a", "t", "t", "e", "r", "n">>
    [] s = "factory-pattern" ->
         <<"f", "a", "c", "t", "o", "r", "y", "-", "p", "a", "t", "t", "e", "r", "n">>
    [] s = "strategy-pattern" ->
         <<"s", "t", "r", "a", "t", "e", "g", "y", "-", "p", "a", "t", "t", "e", "r", "n">>
    [] s = "get_patterns" ->
         <<"g", "e", "t", "_", "p", "a", "t", "t", "e", "r", "n", "s">>
    [] s = "get_pattern" ->
         <<"g", "e", "t", "_", "p", "a", "t", "t", "e", "r", "n">>
    [] s = "get_code_quality_fundamentals" ->
         <<"g", "e", "t", "_", "c", "o", "d", "e", "_", "q", "u", "a", "l", "i", "t", "y", "_", "f", "u", "n", "d", "a", "m", "e", "n", "t", "a", "l", "s">>
    [] s = "get_container_presentational_pattern" ->
         <<"g", "e", "t", "_", "c", "o", "n", "t", "a", "i", "n", "e", "r", "_", "p", "r", "e", "s", "e", "n", "t", "a", "t", "i", "o", "n", "a", "l", "_", "p", "a", "t", "t", "e", "r", "n">>
    [] s = "get_render_props_pattern" ->
         <<"g", "e", "t", "_", "r", "e", "n", "d", "e", "r", "_", "p", "r", "o", "p", "s", "_", "p", "a", "t", "t", "e", "r", "n">>
    [] s = "get_compound_component_pattern" ->
         <<"g", "e", "t", "_", "c", "o", "m", "p", "o", "u", "n", "d", "_", "c", "o", "m", "p", "o", "n", "e", "n", "t", "_", "p", "a", "t", "t", "e", "r", "n">>
    [] s = "get_higher_order_component_pattern" ->
         <<"g", "e", "t", "_", "h", "i", "g", "h", "e", "r", "_", "o", "r", "d", "e", "r", "_", "c", "o", "m", "p", "o", "n", "e", "n", "t", "_", "p", "a", "t", "t", "e", "r", "n">>
    [] s = "get_dependency_injection_pattern" ->
         <<"g", "e", "t", "_", "d", "e", "p", "e", "n", "d", "e", "n", "c", "y", "_", "i", "n", "j", "e", "c", "t", "i", "o", "n", "_", "p", "a", "t", "t", "e", "r", "n">>
    [] s = "get_service_layer_pattern" ->
         <<"g", "e", "t", "_", "s", "e", "r", "v", "i", "c", "e", "_", "l", "a", "y", "e", "r", "_", "p", "a", "t", "t", "e", "r", "n">>
    [] s = "get_adapter_pattern" ->
         <<"g", "e", "t", "_", "a", "d", "a", "p", "t", "e", "r", "_", "p", "a", "t", "t", "e", "r", "n">>
    [] s = "get_builder_pattern" ->
         <<"g", "e", "t", "_", "b", "u", "i", "l", "d", "e", "r", "_", "p", "a", "t", "t", "e", "r", "n">>
    [] s = "get_factory_pattern" ->
         <<"g", "e", "t", "_", "f", "a", "c", "t", "o", "r", "y", "_", "p", "a", "t", "t", "e", "r", "n">>
    [] s = "get_adapter_pattern_pattern" ->
         <<"g", "e", "t", "_", "a", "d", "a", "p", "t", "e", "r", "_", "p", "a", "t", "t", "e", "r", "n", "_", "p", "a", "t", "t", "e", "r", "n">>
    [] s = "get_declarative_programming_pattern" ->
         <<"g", "e", "t", "_", "d", "e", "c", "l", "a", "r", "a", "t", "i", "v", "e", "_", "p", "r", "o", "g", "r", "a", "m", "m", "i", "n", "g", "_", "p", "a", "t", "t", "e", "r", "n">>
    [] s = "get_prop_drilling_solutions_pattern" ->
         <<"g", "e", "t", "_", "p", "r", "o", "p", "_", "d", "r", "i", "l", "l", "i", "n", "g", "_", "s", "o", "l", "u", "t", "i", "o", "n", "s", "_", "p", "a", "t", "t", "e", "r", "n">>
    [] s = "get_builder_pattern_pattern" ->
         <<"g", "e", "t", "_", "b", "u", "i", "l", "d", "e", "r", "_", "p", "a", "t", "t", "e", "r", "n", "_", "p", "a", "t", "t", "e", "r", "n">>
    [] s = "get_factory_pattern_pattern" ->
         <<"g", "e", "t", "_", "f", "a", "c", "t", "o", "r", "y", "_", "p", "a", "t", "t", "e", "r", "n", "_", "p", "a", "t", "t", "e", "r", "n">>
    [] s = "get_strategy_pattern_pattern" ->
         <<"g", "e", "t", "_", "s", "t", "r", "a", "t", "e", "g", "y", "_", "p", "a", "t", "t", "e", "r", "n", "_", "p", "a", "t", "t", "e", "r", "n">>

(***************************************************************************)
(* The quality-fundamentals document                                       *)
(* (src/tools/get-code-quality-fundamentals.ts:50-1315); of a principle    *)
(* the model keeps its name and, for each concept, the concept's name.     *)
(***************************************************************************)
codeQualityFundamentals ==
  [principles |->
     [readability |->
        [name |-> "Readability",
         concepts |-> << [name |-> "Reducing Context"], [name |-> "Naming"],
                         [name |-> "Reading Flow"] >>],
      predictability |->
        [name |-> "Predictability",
         concepts |-> << [name |-> "Managing Unique Names"],
                         [name |-> "Unifying Return Types"],
                         [name |-> "Revealing Hidden Logic"] >>],
      cohesion |->
        [name |-> "Cohesion",
         concepts |-> << [name |-> "File Organization"],
                         [name |-> "Eliminating Magic Numbers"],
                         [name |-> "Form Cohesion"] >>],
      coupling |->
        [name |-> "Coupling",
         concepts |-> << [name |-> "Managing Responsibilities"],
                         [name |-> "Handling Duplicate Code"],
                         [name |-> "Eliminating Props Drilling"] >>]]]

\* src/patterns/index.ts:20-32, the object literal in insertion order.
PATTERN_REGISTRY ==
  << [key |-> "container-presentational", value |-> containerPresentationalPattern],
     [key |-> "render-props",             value |-> renderPropsPattern],
     [key |-> "compound-component",       value |-> compoundComponentPattern],
     [key |-> "higher-order-component",   value |-> higherOrderComponentPattern],
     [key |-> "dependency-injection",     value |-> dependencyInjectionPattern],
     [key |-> "service-layer",            value |-> serviceLayerPattern],
     [key |-> "adapter-pattern",          value |-> adapterPattern],
     [key |-> "declarative-programming",  value |-> declarativeProgrammingPattern],
     [key |-> "prop-drilling-solutions",  value |-> propDrillingSolutionsPattern],
     [key |-> "builder-pattern",          value |-> builderPattern],
     [key |-> "factory-pattern",          value |-> factoryPattern] >>

VARIABLES
  registry,   \* the module-level PATTERN_REGISTRY object
  variant,    \* which createServer built the server
  gen,        \* which generation of the tool handlers is linked: "async" or "sync"
  pc,         \* position of the call-tool request handler
  req,        \* the request being handled: [name, args]
  pending,    \* the promise the request handler is awaiting
  resp,       \* what the request handler produced: an envelope or an exception
  invoked,    \* repository functions called while handling the request
  served,     \* number of requests received so far
  fundamentals, \* the module-level codeQualityFundamentals object
  acc,        \* the last direct accessor call: [fn, arg, outcome]
  ncalls,     \* number of direct accessor calls so far
  memo,       \* an earlier request and its response, as a client kept them
  main,       \* position of main() in src/index.ts
  rejection,  \* the value main() was rejected with
  transport,  \* the server's transport connection
  sigintHandler, \* whether process.on('SIGINT', ...) has been executed
  closers,    \* SIGINT callbacks suspended at `await server.close()`
  signals,    \* number of SIGINTs delivered so far
  exitCode,   \* how the process ended
  stderr,     \* what console.error and console.warn have written
  inflight,   \* the call-tool requests of a pipelining client, by request number
  cachedVersion, \* the module-level cachedVersion of src/version.ts
  manifest,   \* the package.json file
  reads,      \* number of readFileSync calls on the manifest
  fault       \* the unexpected exception raised inside the handler of the request

\* The process: main(), the transport connection and the SIGINT callback.
procVars == <<main, rejection, transport, sigintHandler, closers, signals, exitCode, stderr>>

\* src/version.ts and the file it reads
versionVars == <<cachedVersion, manifest, reads>>

vars == <<registry, fundamentals, variant, gen, pc, req, pending, resp, invoked, served,
          acc, ncalls, memo, procVars, inflight, versionVars, fault>>

(***************************************************************************)
(* JavaScript values and outcomes                                          *)
(***************************************************************************)
Undefined == [t |-> "undefined"]
Null == [t |-> "null"]
JSString(s) == [t |-> "string", s |-> s]
JSNumber(n) == [t |-> "number", n |-> n]
JSArray == [t |-> "array"]
\* An arguments object: its patternId member (Undefined when missing) and
\* whether it carries an unrelated member.
ArgsObject(patternId, extra) == [t |-> "object", patternId |-> patternId, extra |-> extra]

IsTagged(v) == "t" \in DOMAIN v
IsUndefined(v) == IsTagged(v) /\ v.t = "undefined"
IsPromise(v) == IsTagged(v) /\ v.t = "promise"

Return(v) == [kind |-> "return", value |-> v, calls |-> <<>>]
Throw(e) == [kind |-> "throw", error |-> e, calls |-> <<>>]
\* o was produced by a call of fn
Called(fn, o) == [o EXCEPT !.calls = <<fn>> \o @]
\* o was produced after the calls of an earlier outcome
After(earlier, o) == [o EXCEPT !.calls = earlier.calls \o @]

Error(message) == [instanceOfError |-> TRUE, name |-> "Error", message |-> message]
AssertionError(message) ==
  [instanceOfError |-> TRUE, name |-> "AssertionError", message |-> message]

\* The members every plain object inherits from Object.prototype.
ObjectPrototypeKeys ==
  {"constructor", "toString", "toLocaleString", "valueOf", "hasOwnProperty",
   "isPrototypeOf", "propertyIsEnumerable", "__proto__"}

\* Object.keys(obj): the own keys in insertion order.
ObjectKeys(obj) == [i \in 1..Len(obj) |-> obj[i].key]

OwnKeySet(obj) == {obj[i].key : i \in 1..Len(obj)}

\* obj[id] on a plain object: the own member, else the member inherited from
\* Object.prototype, else undefined.
GetProperty(obj, id) ==
  IF id \in OwnKeySet(obj)
    THEN [t |-> "definition",
          value |-> obj[CHOOSE i \in 1..Len(obj) : obj[i].key = id].value]
    ELSE IF id \in ObjectPrototypeKeys
      THEN [t |-> "inherited", member |-> id]
      ELSE Undefined

\* ToBoolean of a looked-up member: objects and functions are truthy.
Truthy(v) == v.t \notin {"undefined", "null"}

(***************************************************************************)
(* Registry accessors (src/patterns/index.ts)                              *)
(***************************************************************************)
\* str.replace(/-/g, '_') on a character sequence
ReplaceDashes(cs) == [i \in 1..Len(cs) |-> IF cs[i] = "-" THEN "_" ELSE cs[i]]

\* `get_${key.replace(/-/g, '_')}_pattern`
ToolNameOfKey(key) == Chars("get_") \o ReplaceDashes(Chars(key)) \o Chars("_pattern")

\* getAllPatternOverviews taking id from the overview's name instead of the key
getAllPatternOverviews_IdFromName ==
  Called("getAllPatternOverviews",
    Return([i \in 1..Len(registry) |->
              [name        |-> registry[i].value.overview.name,
               description |-> registry[i].value.overview.description,
               whenToUse   |-> registry[i].value.overview.whenToUse,
               id          |-> registry[i].value.overview.name,
               toolName    |-> ToolNameOfKey(registry[i].key)]]))

getAllPatternOverviews ==
  Called("getAllPatternOverviews",
    Return([i \in 1..Len(registry) |->
              [name        |-> registry[i].value.overview.name,
               description |-> registry[i].value.overview.description,
               whenToUse   |-> registry[i].value.overview.whenToUse,
               id          |-> registry[i].key,
               toolName    |-> ToolNameOfKey(registry[i].key)]]))

getPatternOverview(id) ==
  LET pattern == GetProperty(registry, id) IN
  Called("getPatternOverview",
    IF ~Truthy(pattern)
      THEN Throw(AssertionError(<<"Pattern '", id, "' not found in registry">>))
      ELSE Return(IF pattern.t = "definition" THEN pattern.value.overview
                                               ELSE Undefined))

\* getDetailedPattern returning the stored document without adding id
getDetailedPattern_NoId(id) ==
  LET patternDef == GetProperty(registry, id) IN
  Called("getDetailedPattern",
    IF ~Truthy(patternDef)
      THEN Throw(AssertionError(<<"Pattern '", id, "' not found in registry">>))
      ELSE Return(IF patternDef.t = "definition" THEN patternDef.value.detailed
                                                 ELSE [id |-> id]))

getDetailedPattern(id) ==
  LET patternDef == GetProperty(registry, id) IN
  Called("getDetailedPattern",
    IF ~Truthy(patternDef)
      THEN Throw(AssertionError(<<"Pattern '", id, "' not found in registry">>))
      ELSE Return(IF patternDef.t = "definition"
                    THEN [f \in DOMAIN patternDef.value.detailed \cup {"id"} |->
                            IF f = "id" THEN id ELSE patternDef.value.detailed[f]]
                    ELSE [id |-> id]))

getPatternIds == Called("getPatternIds", Return(ObjectKeys(registry)))

(***************************************************************************)
(* async functions and await                                               *)
(***************************************************************************)
Settled(o) ==
  IF o.kind = "return" THEN [kind |-> "return", value |-> o.value]
                       ELSE [kind |-> "throw", error |-> o.error]

\* Calling an async function whose body (without a suspension point) has the
\* outcome o: the body runs at the call, the caller gets a settled promise.
AsyncFunction(o) ==
  [kind |-> "return", value |-> [t |-> "promise", settled |-> Settled(o)],
   calls |-> o.calls]

\* `await e`, where evaluating e had the outcome o.
Await(o) ==
  IF o.kind = "return" /\ IsPromise(o.value)
    THEN IF o.value.settled.kind = "return"
           THEN [kind |-> "return", value |-> o.value.settled.value, calls |-> o.calls]
           ELSE [kind |-> "throw", error |-> o.value.settled.error, calls |-> o.calls]
    ELSE o

(***************************************************************************)
(* Tool handlers (src/tools/*.ts)                                          *)
(***************************************************************************)
\* The body shared by the per-pattern handlers and handleGetPattern:
\*   const pattern = getDetailedPattern(id); assert(pattern, ...); return { pattern };
\* getDetailedPattern returns an object, which the assert accepts.
DetailedPatternResponse(id) ==
  LET o == getDetailedPattern(id) IN
  IF o.kind = "throw" THEN o ELSE After(o, Return([pattern |-> o.value]))

handleGetPattern(patternId) ==
  Called("handleGetPattern", DetailedPatternResponse(patternId))

handleGetContainerPresentationalPattern ==
  Called("handleGetContainerPresentationalPattern",
         DetailedPatternResponse("container-presentational"))
handleGetRenderPropsPattern ==
  Called("handleGetRenderPropsPattern", DetailedPatternResponse("render-props"))
handleGetCompoundComponentPattern ==
  Called("handleGetCompoundComponentPattern", DetailedPatternResponse("compound-component"))
handleGetCompoundComponentPatternAsync ==
  AsyncFunction(handleGetCompoundComponentPattern)
handleGetHigherOrderComponentPatternAsync ==
  AsyncFunction(Called("handleGetHigherOrderComponentPattern",
                       DetailedPatternResponse("higher-order-component")))
handleGetDependencyInjectionPattern ==
  Called("handleGetDependencyInjectionPattern",
         DetailedPatternResponse("dependency-injection"))
handleGetDependencyInjectionPatternAsync ==
  AsyncFunction(handleGetDependencyInjectionPattern)
handleGetServiceLayerPattern ==
  Called("handleGetServiceLayerPattern", DetailedPatternResponse("service-layer"))
handleGetServiceLayerPatternAsync ==
  AsyncFunction(handleGetServiceLayerPattern)
handleGetAdapterPattern ==
  Called("handleGetAdapterPattern", DetailedPatternResponse("adapter-pattern"))
handleGetDeclarativeProgrammingPattern ==
  Called("handleGetDeclarativeProgrammingPattern",
         DetailedPatternResponse("declarative-programming"))
handleGetDeclarativeProgrammingPatternAsync ==
  AsyncFunction(handleGetDeclarativeProgrammingPattern)
handleGetPropDrillingSolutionsPatternAsync ==
  AsyncFunction(Called("handleGetPropDrillingSolutionsPattern",
                       DetailedPatternResponse("prop-drilling-solutions")))
handleGetBuilderPattern_Factory ==
  Called("handleGetBuilderPattern", DetailedPatternResponse("factory-pattern"))
handleGetBuilderPattern ==
  Called("handleGetBuilderPattern", DetailedPatternResponse("builder-pattern"))
handleGetFactoryPattern ==
  Called("handleGetFactoryPattern", DetailedPatternResponse("factory-pattern"))
handleGetFactoryPatternAsync ==
  AsyncFunction(handleGetFactoryPattern)

\* handleGetPatterns leaving whenToUse out of the listed elements
handleGetPatterns_NoWhenToUse ==
  LET o == getAllPatternOverviews IN
  Called("handleGetPatterns",
    After(o, Return(
      [patterns |-> [i \in 1..Len(o.value) |->
                       [name        |-> o.value[i].name,
                        description |-> o.value[i].description,
                        patternId   |-> o.value[i].id]],
       usage |-> [nextStep |-> "", example |-> ""]])))

\* The synchronous handleGetPatterns, which lists patternId.
handleGetPatterns ==
  LET o == getAllPatternOverviews IN
  Called("handleGetPatterns",
    After(o, Return(
      [patterns |-> [i \in 1..Len(o.value) |->
                       [name        |-> o.value[i].name,
                        description |-> o.value[i].description,
                        whenToUse   |-> o.value[i].whenToUse,
                        patternId   |-> o.value[i].id]],
       usage |->
         [nextStep |-> "Choose pattern(s) that fits your needs and call get_pattern with the patternId for detailed guidance and examples. Be careful not to over-engineer - start simple and add complexity only when needed.",
          example |-> "Call get_pattern with patternId 'container-presentational' for detailed Container/Presentational pattern implementation"]])))

\* The async handleGetPatterns, which lists toolName.
handleGetPatternsAsync ==
  LET o == getAllPatternOverviews IN
  AsyncFunction(Called("handleGetPatterns",
    After(o, Return(
      [patterns |-> [i \in 1..Len(o.value) |->
                       [name        |-> o.value[i].name,
                        description |-> o.value[i].description,
                        whenToUse   |-> o.value[i].whenToUse,
                        toolName    |-> o.value[i].toolName]],
       usage |->
         [nextStep |-> "Choose a pattern that fits your needs and call the corresponding tool(s) for detailed guidance and examples",
          example |-> "Call 'get_container_presentational_pattern' for detailed Container/Presentational pattern implementation"]]))))

\* handleGetCodeQualityFundamentals returning the principles alone
handleGetCodeQualityFundamentals_PrinciplesOnly ==
  Called("handleGetCodeQualityFundamentals", Return(fundamentals.principles))

handleGetCodeQualityFundamentals ==
  Called("handleGetCodeQualityFundamentals", Return(fundamentals))

(***************************************************************************)
(* getVersion (src/version.ts).  The manifest file is unreadable or has a  *)
(* text; a text is kept by what JSON.parse makes of it.                    *)
(***************************************************************************)
Unreadable == [t |-> "unreadable"]
InvalidJSON == [t |-> "text", valid |-> FALSE]
JSONText(value) == [t |-> "text", valid |-> TRUE, value |-> value]
\* a parsed manifest object and its version member (Undefined when missing)
PackageObject(version) == [t |-> "object", version |-> version]

\* readFileSync(packageJsonPath, 'utf8')
readFileSync(file) ==
  IF file.t = "unreadable"
    THEN Throw([instanceOfError |-> TRUE, name |-> "Error",
                message |-> <<"ENOENT: no such file or directory">>])
    ELSE Return(file)

JSONParse(text) ==
  IF text.valid THEN Return(text.value)
                ELSE Throw([instanceOfError |-> TRUE, name |-> "SyntaxError",
                            message |-> <<"Unexpected token">>])

\* packageJson.version
VersionMember(packageJson) ==
  CASE packageJson.t = "object" -> Return(packageJson.version)
    [] packageJson.t \in {"null", "undefined"} ->
         Throw([instanceOfError |-> TRUE, name |-> "TypeError",
                message |-> <<"Cannot read properties of null (reading 'version')">>])
    [] OTHER -> Return(Undefined)

\* ToBoolean of a value
ToBoolean(v) ==
  CASE v.t \in {"undefined", "null"} -> FALSE
    [] v.t = "string" -> v.s # ""
    [] v.t = "number" -> v.n # 0
    [] OTHER -> TRUE

\* getVersion() letting a failure of the read or the parse through
getVersionFrom_NoCatch(cached, file) ==
  IF ToBoolean(cached)
    THEN [outcome |-> Called("getVersion", Return(cached)),
          cachedVersion |-> cached, reads |-> 0, warned |-> <<>>]
    ELSE LET read == readFileSync(file)
             parsed == IF read.kind = "return" THEN JSONParse(read.value) ELSE read
             version == IF parsed.kind = "return" THEN VersionMember(parsed.value)
                                                  ELSE parsed
         IN CASE version.kind = "throw" ->
                   [outcome |-> Called("getVersion", version),
                    cachedVersion |-> cached, reads |-> 1, warned |-> <<>>]
              [] version.kind = "return" /\ version.value.t = "string" ->
                   [outcome |-> Called("getVersion", Return(version.value)),
                    cachedVersion |-> version.value, reads |-> 1, warned |-> <<>>]
              [] OTHER ->
                   [outcome |-> Called("getVersion", Return(JSString("0.0.0"))),
                    cachedVersion |-> JSString("0.0.0"), reads |-> 1, warned |-> <<>>]

\* A call of getVersion() with the module variable at cached and the manifest
\* file at file: its outcome, the new value of cachedVersion, the number of
\* reads of the manifest and what console.warn wrote.
getVersionFrom(cached, file) ==
  IF ToBoolean(cached)
    THEN [outcome |-> Called("getVersion", Return(cached)),
          cachedVersion |-> cached, reads |-> 0, warned |-> <<>>]
    ELSE LET read == readFileSync(file)
             parsed == IF read.kind = "return" THEN JSONParse(read.value) ELSE read
             version == IF parsed.kind = "return" THEN VersionMember(parsed.value)
                                                  ELSE parsed
         IN IF version.kind = "return" /\ version.value.t = "string"
              THEN [outcome |-> Called("getVersion", Return(version.value)),
                    cachedVersion |-> version.value, reads |-> 1, warned |-> <<>>]
              ELSE [outcome |-> Called("getVersion", Return(JSString("0.0.0"))),
                    cachedVersion |-> JSString("0.0.0"), reads |-> 1,
                    warned |-> IF version.kind = "throw"
                                 THEN << <<JSString("Could not read version from package.json:"),
                                           version.error>> >>
                                 ELSE <<>>]

getVersion == getVersionFrom(cachedVersion, manifest)

(***************************************************************************)
(* createServer: the handler tables of the three variants                  *)
(***************************************************************************)
Variants == {"validated", "finegrained", "parameterized"}

\* The keys of toolHandlers, in the order the Map is built.
FineGrainedToolNames ==
  << "get_patterns",
     "get_container_presentational_pattern",
     "get_render_props_pattern",
     "get_compound_component_pattern",
     "get_higher_order_component_pattern",
     "get_dependency_injection_pattern",
     "get_service_layer_pattern",
     "get_adapter_pattern",
     "get_declarative_programming_pattern",
     "get_prop_drilling_solutions_pattern",
     "get_builder_pattern",
     "get_factory_pattern" >>

\* the handler table of server.ts used by every fine-grained server
toolHandlerNames_NoFundamentals(v) ==
  CASE v = "validated" -> FineGrainedToolNames
    [] v = "finegrained" -> FineGrainedToolNames
    [] v = "parameterized" ->
         <<"get_patterns", "get_pattern", "get_code_quality_fundamentals">>

toolHandlerNames(v) ==
  CASE v = "validated" -> FineGrainedToolNames
    [] v = "finegrained" -> Append(FineGrainedToolNames, "get_code_quality_fundamentals")
    [] v = "parameterized" ->
         <<"get_patterns", "get_pattern", "get_code_quality_fundamentals">>

Range(s) == {s[i] : i \in 1..Len(s)}

\* toolHandlers.get(name) is defined
HasHandler(v, name) == name \in Range(toolHandlerNames(v))

\* The function a fine-grained server imports from ./tools/index.js under each
\* tool name.  Where the sources hold a synchronous and an async version of a
\* handler, gen says which one is linked.
FineGrainedHandler(name) ==
  CASE name = "get_patterns" -> handleGetPatternsAsync
    [] name = "get_container_presentational_pattern" ->
         handleGetContainerPresentationalPattern
    [] name = "get_render_props_pattern" -> handleGetRenderPropsPattern
    [] name = "get_compound_component_pattern" ->
         IF gen = "async" THEN handleGetCompoundComponentPatternAsync
                          ELSE handleGetCompoundComponentPattern
    [] name = "get_higher_order_component_pattern" ->
         handleGetHigherOrderComponentPatternAsync
    [] name = "get_dependency_injection_pattern" ->
         IF gen = "async" THEN handleGetDependencyInjectionPatternAsync
                          ELSE handleGetDependencyInjectionPattern
    [] name = "get_service_layer_pattern" ->
         IF gen = "async" THEN handleGetServiceLayerPatternAsync
                          ELSE handleGetServiceLayerPattern
    [] name = "get_adapter_pattern" -> handleGetAdapterPattern
    [] name = "get_declarative_programming_pattern" ->
         IF gen = "async" THEN handleGetDeclarativeProgrammingPatternAsync
                          ELSE handleGetDeclarativeProgrammingPattern
    [] name = "get_prop_drilling_solutions_pattern" ->
         handleGetPropDrillingSolutionsPatternAsync
    [] name = "get_builder_pattern" -> handleGetBuilderPattern
    [] name = "get_factory_pattern" ->
         IF gen = "async" THEN handleGetFactoryPatternAsync
                          ELSE handleGetFactoryPattern
    [] name = "get_code_quality_fundamentals" -> handleGetCodeQualityFundamentals

\* src/adapters/mcp.ts
\* validateArgsObject testing typeof alone
validateArgsObject_TypeofOnly(args) == args.t \in {"object", "null", "array"}
\* typeof args === 'object' && args !== null && !Array.isArray(args)
validateArgsObject(args) == args.t = "object"

\* createValidatedHandler letting the handler's own failure through
createValidatedHandler_Rethrow(h, args) ==
  AsyncFunction(
    IF ~validateArgsObject(args)
      THEN Throw(Error(<<"Invalid arguments: expected object">>))
      ELSE Await(h))

\* createValidatedHandler(handler)(args), where calling handler(args) has the
\* outcome h.
createValidatedHandler(h, args) ==
  AsyncFunction(
    IF ~validateArgsObject(args)
      THEN Throw(Error(<<"Invalid arguments: expected object">>))
      ELSE LET r == Await(h) IN
           IF r.kind = "return" THEN r
           ELSE IF r.error.instanceOfError
             THEN After(r, Throw(Error(<<"Handler execution failed: ">> \o r.error.message)))
             ELSE After(r, Throw(Error(<<"Handler execution failed with unknown error">>))))

\* `args ?? {}`
OrEmptyObject(args) ==
  IF args.t \in {"undefined", "null"} THEN ArgsObject(Undefined, FALSE) ELSE args

\* typeof args.patternId, for a truthy args
PatternIdOf(args) == IF args.t = "object" THEN args.patternId ELSE Undefined

\* The get_pattern entry checking only that args is present
getPatternEntry_NoTypeCheck(args) ==
  IF args.t \in {"undefined", "null"}
    THEN Throw(Error(<<"patternId is required">>))
    ELSE handleGetPattern(IF PatternIdOf(args).t = "string" THEN PatternIdOf(args).s
                                                            ELSE PatternIdOf(args).t)

\* The get_pattern entry of the parameterized server's toolHandlers.
getPatternEntry(args) ==
  IF args.t \in {"undefined", "null"} \/ PatternIdOf(args).t # "string"
    THEN Throw(Error(<<"patternId is required">>))
    ELSE handleGetPattern(PatternIdOf(args).s)

\* handler(...) as the call-tool request handler of variant v calls it.
InvokeHandler(v, name, args) ==
  CASE v = "validated" ->
         createValidatedHandler(FineGrainedHandler(name), OrEmptyObject(args))
    [] v = "finegrained" -> FineGrainedHandler(name)
    [] v = "parameterized" ->
         CASE name = "get_patterns" -> handleGetPatterns
           [] name = "get_pattern" -> getPatternEntry(args)
           [] name = "get_code_quality_fundamentals" -> handleGetCodeQualityFundamentals

(***************************************************************************)
(* The response envelope                                                   *)
(***************************************************************************)
\* JSON.stringify(value, null, 2): the text of an object is determined by the
\* object; a Promise has no enumerable members and is written as "{}".
JSONStringify(value) ==
  IF IsPromise(value) THEN [kind |-> "emptyObject"]
                      ELSE [kind |-> "object", of |-> value]

\* A success envelope that numbers the responses
SuccessEnvelope_Numbered(result) ==
  [content |-> << [type |-> "text", text |-> JSONStringify(result)],
                  [type |-> "text", text |-> JSONStringify(JSNumber(served))] >>]

SuccessEnvelope(result) ==
  [content |-> << [type |-> "text", text |-> JSONStringify(result)] >>]

ErrorEnvelope(error) ==
  LET errorMessage == IF error.instanceOfError THEN error.message
                                               ELSE <<"Unknown error occurred">>
  IN [content |-> << [type |-> "text", text |-> JSONStringify([error |-> errorMessage])] >>,
      isError |-> TRUE]

\* The request handler without the catch block
TryRespond_NoCatch(o) ==
  IF o.kind = "return" THEN [kind |-> "envelope", envelope |-> SuccessEnvelope(o.value)]
                       ELSE [kind |-> "exception", error |-> o.error]

\* try { const result = <o>; return success } catch (error) { return failure }
TryRespond(o) ==
  IF o.kind = "return" THEN [kind |-> "envelope", envelope |-> SuccessEnvelope(o.value)]
                       ELSE [kind |-> "envelope", envelope |-> ErrorEnvelope(o.error)]

NoResponse == [kind |-> "none"]
NoRequest == [name |-> "", args |-> Undefined]
NoPending == [kind |-> "none"]
NoCall == [fn |-> "", arg |-> "", outcome |-> [kind |-> "none"]]

(***************************************************************************)
(* Tool descriptors and the list-tools request handler                     *)
(***************************************************************************)
getPatternsTool ==
  [name |-> "get_patterns",
   description |->
     "Get an overview of all available React patterns and best practices. Use this first to discover which patterns you need, then call specific pattern tools for detailed guidance.",
   inputSchema |->
     [type |-> "object"]]

getPatternTool ==
  [name |-> "get_pattern",
   description |->
     "Get detailed information about a specific React pattern with comprehensive examples and implementation guidance.",
   inputSchema |->
     [type |-> "object",
      properties |->
        <<[key |-> "patternId",
           value |-> [type |-> "string",
                      description |-> "The ID of the pattern to retrieve",
                      enum |-> getPatternIds.value]]>>,
      required |-> <<"patternId">>]]

getCodeQualityFundamentalsTool ==
  [name |-> "get_code_quality_fundamentals",
   description |->
     "Get comprehensive code quality fundamentals based on the four principles: Readability, Predictability, Cohesion, and Coupling. These principles help you write maintainable React/TypeScript code.",
   inputSchema |->
     [type |-> "object"]]

getContainerPresentationalPatternTool ==
  [name |-> "get_container_presentational_pattern",
   description |->
     "Get detailed information about the Container/Presentational pattern with comprehensive examples and implementation guidance.",
   inputSchema |->
     [type |-> "object", properties |-> <<>>, required |-> <<>>]]

getRenderPropsPatternTool ==
  [name |-> "get_render_props_pattern",
   description |->
     "Get detailed information about the Render Props pattern with comprehensive examples and implementation guidance.",
   inputSchema |->
     [type |-> "object", properties |-> <<>>, required |-> <<>>]]

getCompoundComponentPatternTool ==
  [name |-> "get_compound_component_pattern",
   description |->
     "Get detailed information about the Compound Component pattern with comprehensive examples and implementation guidance.",
   inputSchema |->
     [type |-> "object", properties |-> <<>>, required |-> <<>>]]

getHigherOrderComponentPatternTool ==
  [name |-> "get_higher_order_component_pattern",
   description |->
     "Get detailed information about the Higher-Order Component (HOC) pattern with comprehensive examples and implementation guidance.",
   inputSchema |->
     [type |-> "object", properties |-> <<>>, required |-> <<>>]]

getDependencyInjectionPatternTool ==
  [name |-> "get_dependency_injection_pattern",
   description |->
     "Get detailed information about the Dependency Injection pattern with comprehensive examples and implementation guidance.",
   inputSchema |->
     [type |-> "object", properties |-> <<>>, required |-> <<>>]]

getServiceLayerPatternTool ==
  [name |-> "get_service_layer_pattern",
   description |->
     "Get detailed information about the Service Layer pattern for abstracting API calls and business logic.",
   inputSchema |->
     [type |-> "object", properties |-> <<>>, required |-> <<>>]]

getAdapterPatternTool ==
  [name |-> "get_adapter_pattern",
   description |->
     "Get detailed information about the Adapter pattern for integrating with external APIs and legacy systems.",
   inputSchema |->
     [type |-> "object", properties |-> <<>>, required |-> <<>>]]

getDeclarativeProgrammingPatternTool ==
  [name |-> "get_declarative_programming_pattern",
   description |->
     "Get detailed information about the Declarative Programming pattern for transforming imperative code into declarative React patterns.",
   inputSchema |->
     [type |-> "object", properties |-> <<>>, required |-> <<>>]]

getPropDrillingSolutionsPatternTool ==
  [name |-> "get_prop_drilling_solutions_pattern",
   description |->
     "Get detailed information about the Prop Drilling Solutions pattern for avoiding props being passed through multiple component layers.",
   inputSchema |->
     [type |-> "object", properties |-> <<>>, required |-> <<>>]]

getBuilderPatternTool ==
  [name |-> "get_builder_pattern",
   description |->
     "Get detailed information about the Builder pattern for constructing complex objects step by step with a fluent interface.",
   inputSchema |->
     [type |-> "object", properties |-> <<>>, required |-> <<>>]]

getFactoryPatternTool ==
  [name |-> "get_factory_pattern",
   description |->
     "Get detailed information about the Factory pattern for creating objects through factory functions without specifying exact classes.",
   inputSchema |->
     [type |-> "object", properties |-> <<>>, required |-> <<>>]]

\* A list-tools handler that stops listing get_patterns after the first request
ListToolsRequestHandler_FirstOnly(v) ==
  IF served = 0 THEN [tools |-> <<getPatternsTool, getCodeQualityFundamentalsTool>>]
                ELSE [tools |-> <<getCodeQualityFundamentalsTool>>]

\* The result of the list-tools request handler of variant v.
ListToolsRequestHandler(v) ==
  CASE v = "validated" ->
         [tools |-> << getPatternsTool,
                       getContainerPresentationalPatternTool,
                       getRenderPropsPatternTool,
                       getCompoundComponentPatternTool,
                       getHigherOrderComponentPatternTool,
                       getDependencyInjectionPatternTool,
                       getServiceLayerPatternTool,
                       getAdapterPatternTool,
                       getDeclarativeProgrammingPatternTool,
                       getPropDrillingSolutionsPatternTool,
                       getBuilderPatternTool,
                       getFactoryPatternTool >>]
    [] v = "finegrained" ->
         [tools |-> << getPatternsTool,
                       getContainerPresentationalPatternTool,
                       getRenderPropsPatternTool,
                       getCompoundComponentPatternTool,
                       getHigherOrderComponentPatternTool,
                       getDependencyInjectionPatternTool,
                       getServiceLayerPatternTool,
                       getAdapterPatternTool,
                       getDeclarativeProgrammingPatternTool,
                       getPropDrillingSolutionsPatternTool,
                       getBuilderPatternTool,
                       getFactoryPatternTool,
                       getCodeQualityFundamentalsTool >>]
    [] v = "parameterized" ->
         [tools |-> << getPatternsTool, getPatternTool, getCodeQualityFundamentalsTool >>]

\* capabilities.tools of the Server constructed by variant v, as the ordered
\* key/value pairs of the object literal.
capabilitiesTools(v) ==
  CASE v = "validated" ->
         << [key |-> "get_patterns", value |-> getPatternsTool],
            [key |-> "get_container_presentational_pattern",
             value |-> getContainerPresentationalPatternTool],
            [key |-> "get_render_props_pattern", value |-> getRenderPropsPatternTool],
            [key |-> "get_compound_component_pattern",
             value |-> getCompoundComponentPatternTool],
            [key |-> "get_higher_order_component_pattern",
             value |-> getHigherOrderComponentPatternTool],
            [key |-> "get_dependency_injection_pattern",
             value |-> getDependencyInjectionPatternTool],
            [key |-> "get_service_layer_pattern", value |-> getServiceLayerPatternTool],
            [key |-> "get_adapter_pattern", value |-> getAdapterPatternTool],
            [key |-> "get_declarative_programming_pattern",
             value |-> getDeclarativeProgrammingPatternTool],
            [key |-> "get_prop_drilling_solutions_pattern",
             value |-> getPropDrillingSolutionsPatternTool],
            [key |-> "get_builder_pattern", value |-> getBuilderPatternTool],
            [key |-> "get_factory_pattern", value |-> getFactoryPatternTool] >>
    [] v = "finegrained" ->
         << [key |-> "get_patterns", value |-> getPatternsTool],
            [key |-> "get_container_presentational_pattern",
             value |-> getContainerPresentationalPatternTool],
            [key |-> "get_render_props_pattern", value |-> getRenderPropsPatternTool],
            [key |-> "get_compound_component_pattern",
             value |-> getCompoundComponentPatternTool],
            [key |-> "get_higher_order_component_pattern",
             value |-> getHigherOrderComponentPatternTool],
            [key |-> "get_dependency_injection_pattern",
             value |-> getDependencyInjectionPatternTool],
            [key |-> "get_service_layer_pattern", value |-> getServiceLayerPatternTool],
            [key |-> "get_adapter_pattern", value |-> getAdapterPatternTool],
            [key |-> "get_declarative_programming_pattern",
             value |-> getDeclarativeProgrammingPatternTool],
            [key |-> "get_prop_drilling_solutions_pattern",
             value |-> getPropDrillingSolutionsPatternTool],
            [key |-> "get_builder_pattern", value |-> getBuilderPatternTool],
            [key |-> "get_factory_pattern", value |-> getFactoryPatternTool],
            [key |-> "get_code_quality_fundamentals",
             value |-> getCodeQualityFundamentalsTool] >>
    [] v = "parameterized" ->
         << [key |-> "get_patterns", value |-> getPatternsTool],
            [key |-> "get_pattern", value |-> getPatternTool],
            [key |-> "get_code_quality_fundamentals",
             value |-> getCodeQualityFundamentalsTool] >>

(***************************************************************************)
(* Inputs                                                                  *)
(***************************************************************************)
ToolNameInputs ==
  Range(toolHandlerNames("finegrained")) \cup Range(toolHandlerNames("parameterized"))
    \cup {"does_not_exist", "get_strategy_pattern", "get_adapter_pattern_pattern"}

RequestPatternIdInputs == {"builder-pattern", "render-props", "not-real", "constructor"}

ArgumentInputs ==
  {Undefined, Null, JSArray, JSString("builder-pattern"),
   ArgsObject(Undefined, FALSE), ArgsObject(Undefined, TRUE),
   ArgsObject(JSNumber(42), FALSE)}
    \cup {ArgsObject(JSString(s), FALSE) : s \in RequestPatternIdInputs}

PatternIdInputs ==
  Range(ObjectKeys(PATTERN_REGISTRY))
    \cup {"strategy-pattern", "not-real", "invalid-pattern-id", "no-such-pattern", "",
          "constructor", "toString", "hasOwnProperty", "__proto__"}

(***************************************************************************)
(* The server                                                              *)
(***************************************************************************)
Builds ==
  { <<"validated", "async">>, <<"finegrained", "async">>, <<"finegrained", "sync">>,
    <<"parameterized", "sync">> }

NoFault == [t |-> "none"]
\* an in-flight slot without a request
NoFlight == [pc |-> "idle", req |-> NoRequest, pending |-> NoPending, resp |-> NoResponse,
             sent |-> 0]
\* the manifest the package ships
PackageJson == JSONText(PackageObject(JSString("0.1.2")))

NoMemo == [method |-> "", req |-> NoRequest, resp |-> NoResponse, at |-> 0]
NoRejection == [t |-> "none"]
NoExit == [t |-> "none"]
\* process.exit(code)
Exited(code) == [t |-> "exit", code |-> code]
\* ended by the default disposition of a signal
KilledBy(signal) == [t |-> "signal", signal |-> signal]

\* the process has not ended
Alive == exitCode = NoExit
\* the process is alive and its transport delivers requests
Connected == Alive /\ transport = "open"

\* The modules are loaded; no request was received and no accessor called.
Loaded ==
  /\ registry = PATTERN_REGISTRY
  /\ fundamentals = codeQualityFundamentals
  /\ \E b \in Builds : variant = b[1] /\ gen = b[2]
  /\ pc = "idle"
  /\ req = NoRequest
  /\ pending = NoPending
  /\ resp = NoResponse
  /\ invoked = <<>>
  /\ served = 0
  /\ acc = NoCall
  /\ ncalls = 0
  /\ memo = NoMemo
  /\ rejection = NoRejection
  /\ closers = 0
  /\ signals = 0
  /\ exitCode = NoExit
  /\ stderr = <<>>
  /\ inflight = [i \in 1..MaxInFlight |-> NoFlight]
  /\ fault = NoFault

\* The server is running: main() has connected the transport and registered
\* the SIGINT callback; the createServer of src/unnamed/part_002 has called
\* getVersion().
Init ==
  /\ Loaded
  /\ main = "running"
  /\ transport = "open"
  /\ sigintHandler = TRUE
  /\ manifest = PackageJson
  /\ cachedVersion = IF variant = "parameterized"
                       THEN getVersionFrom(Undefined, PackageJson).cachedVersion
                       ELSE Undefined
  /\ reads = IF variant = "parameterized" THEN 1 ELSE 0

\* The transport hands a call-tool request to the server.
ReceiveCallTool(name, args) ==
  /\ Connected
  /\ pc \in {"idle", "responded", "threw", "listed"}
  /\ served < MaxRequests
  /\ pc' = "called"
  /\ req' = [name |-> name, args |-> args]
  /\ resp' = NoResponse
  /\ invoked' = <<>>
  /\ served' = served + 1
  /\ fault' = NoFault
  /\ UNCHANGED <<inflight, versionVars, registry, fundamentals, variant, gen, pending, acc,
                 ncalls, memo, procVars>>

\* The call-tool request handler, up to its return or its first suspension.
CallToolRequestHandler ==
  /\ Alive
  /\ pc = "called"
  /\ IF ~HasHandler(variant, req.name)
       THEN /\ resp' = [kind |-> "exception",
                        error |-> Error(<<"Tool '", req.name, "' not found">>)]
            /\ pc' = "threw"
            /\ UNCHANGED <<pending, invoked>>
       ELSE LET o == InvokeHandler(variant, req.name, req.args) IN
            IF variant = "validated"
              THEN /\ pending' = o
                   /\ invoked' = o.calls
                   /\ pc' = "awaiting"
                   /\ UNCHANGED resp
              ELSE /\ resp' = TryRespond(o)
                   /\ invoked' = o.calls
                   /\ pc' = "responded"
                   /\ UNCHANGED pending
  /\ UNCHANGED <<fault, inflight, versionVars, registry, fundamentals, variant, gen, req, served, acc, ncalls, memo, procVars>>

\* The resumption of a request handler whose accessor wrote the id into the
\* stored overview (Object.assign(patternDef.overview, {id: key})) instead of
\* building a new object
ResumeCallTool_WritesRegistry ==
  /\ Alive
  /\ pc = "awaiting"
  /\ resp' = TryRespond(Await(pending))
  /\ pending' = NoPending
  /\ pc' = "responded"
  /\ registry' =
       [i \in 1..Len(registry) |->
          [registry[i] EXCEPT !.value.overview =
             [f \in DOMAIN registry[i].value.overview \cup {"id"} |->
                IF f = "id" THEN registry[i].key ELSE registry[i].value.overview[f]]]]
  /\ UNCHANGED <<fault, inflight, versionVars, fundamentals, variant, gen, req, invoked, served, acc, ncalls,
                 memo, procVars>>

\* The validated server's request handler resumes after `await handler(...)`.
ResumeCallTool ==
  /\ Alive
  /\ pc = "awaiting"
  /\ resp' = TryRespond(Await(pending))
  /\ pending' = NoPending
  /\ pc' = "responded"
  /\ UNCHANGED <<fault, inflight, versionVars, registry, fundamentals, variant, gen, req, invoked, served, acc, ncalls,
                 memo, procVars>>

\* A list-tools request: the handler has no suspension point and returns
\* its result.
ListTools ==
  /\ Connected
  /\ pc \in {"idle", "responded", "threw", "listed"}
  /\ served < MaxRequests
  /\ pc' = "listed"
  /\ req' = NoRequest
  /\ resp' = [kind |-> "result", result |-> ListToolsRequestHandler(variant)]
  /\ invoked' = <<>>
  /\ served' = served + 1
  /\ UNCHANGED <<fault, inflight, versionVars, registry, fundamentals, variant, gen, pending, acc, ncalls, memo, procVars>>

Next ==
  \/ \E name \in ToolNameInputs, args \in ArgumentInputs : ReceiveCallTool(name, args)
  \/ ListTools
  \/ CallToolRequestHandler
  \/ ResumeCallTool

Spec == Init /\ [][Next]_vars

(***************************************************************************)
(* The unit harness: direct calls of the accessors and handlers, as the    *)
(* repository's tests make them.                                           *)
(***************************************************************************)
Record(fn, arg, o) ==
  /\ ncalls < MaxCalls
  /\ acc' = [fn |-> fn, arg |-> arg, outcome |-> o]
  /\ ncalls' = ncalls + 1
  /\ UNCHANGED <<fault, inflight, versionVars, registry, fundamentals, variant, gen, pc, req, pending, resp, invoked,
                 served, memo, procVars>>

CallGetPatternOverview(id) == Record("getPatternOverview", id, getPatternOverview(id))
CallGetDetailedPattern(id) == Record("getDetailedPattern", id, getDetailedPattern(id))
CallHandleGetPattern(id) == Record("handleGetPattern", id, handleGetPattern(id))
CallGetAllPatternOverviews == Record("getAllPatternOverviews", "", getAllPatternOverviews)
CallGetPatternIds == Record("getPatternIds", "", getPatternIds)
CallHandleGetPatterns == Record("handleGetPatterns", "", handleGetPatterns)
CallHandleGetPatternsAsync == Record("handleGetPatternsAsync", "", handleGetPatternsAsync)

AccessorNext ==
  \/ \E id \in PatternIdInputs : CallGetPatternOverview(id)
  \/ \E id \in PatternIdInputs : CallGetDetailedPattern(id)
  \/ \E id \in PatternIdInputs : CallHandleGetPattern(id)
  \/ CallGetAllPatternOverviews
  \/ CallGetPatternIds
  \/ CallHandleGetPatterns
  \/ CallHandleGetPatternsAsync

AccessorSpec == Init /\ [][AccessorNext]_vars

(***************************************************************************)
(* A client that keeps one earlier exchange, to compare later responses    *)
(* with it.                                                                *)
(***************************************************************************)
HistoryToolNames ==
  {"get_patterns", "get_pattern", "get_builder_pattern", "get_code_quality_fundamentals",
   "does_not_exist"}

HistoryArguments ==
  {Undefined, ArgsObject(JSString("builder-pattern"), FALSE),
   ArgsObject(JSString("not-real"), FALSE)}

\* The client keeps the request just answered, its response and its number
\* among the requests sent.
Remember ==
  /\ pc \in {"responded", "threw", "listed"}
  /\ memo' = [method |-> IF pc = "listed" THEN "tools/list" ELSE "tools/call",
              req |-> req, resp |-> resp, at |-> served]
  /\ UNCHANGED <<fault, inflight, versionVars, registry, fundamentals, variant, gen, pc, req, pending, resp, invoked,
                 served, acc, ncalls, procVars>>

HistoryNext ==
  \/ \E name \in HistoryToolNames, args \in HistoryArguments : ReceiveCallTool(name, args)
  \/ ListTools
  \/ CallToolRequestHandler
  \/ ResumeCallTool
  \/ Remember

HistorySpec == Init /\ [][HistoryNext]_vars

(***************************************************************************)
(* Unexpected exceptions: the catch blocks of createValidatedHandler and   *)
(* of the request handlers take whatever value was thrown, so the run of a *)
(* registered handler may also end in an exception none of the handlers    *)
(* raises by itself.                                                       *)
(***************************************************************************)
UnexpectedErrorInputs ==
  { [instanceOfError |-> TRUE, name |-> "TypeError",
     message |-> <<"Cannot read properties of undefined (reading 'overview')">>],
    [instanceOfError |-> TRUE, name |-> "RangeError",
     message |-> <<"Maximum call stack size exceeded">>],
    [instanceOfError |-> FALSE, t |-> "string", s |-> "boom"] }

FaultToolNames == {"get_patterns", "get_pattern", "get_builder_pattern", "does_not_exist"}
FaultArguments == {Undefined, JSArray, ArgsObject(JSString("not-real"), FALSE)}

\* The call-tool request handler, up to its return or its first suspension,
\* when the registered handler it calls throws error.
CallToolRequestHandler_HandlerThrows(error) ==
  /\ Alive
  /\ pc = "called"
  /\ HasHandler(variant, req.name)
  /\ fault' = error
  /\ invoked' = <<>>
  /\ IF variant = "validated"
       THEN /\ validateArgsObject(OrEmptyObject(req.args))
            /\ pending' = createValidatedHandler(Throw(error), OrEmptyObject(req.args))
            /\ pc' = "awaiting"
            /\ UNCHANGED resp
       ELSE /\ resp' = TryRespond(Throw(error))
            /\ pc' = "responded"
            /\ UNCHANGED pending
  /\ UNCHANGED <<inflight, versionVars, registry, fundamentals, variant, gen, req, served,
                 acc, ncalls, memo, procVars>>

FaultNext ==
  \/ \E name \in FaultToolNames, args \in FaultArguments : ReceiveCallTool(name, args)
  \/ CallToolRequestHandler
  \/ \E error \in UnexpectedErrorInputs : CallToolRequestHandler_HandlerThrows(error)
  \/ ResumeCallTool

FaultSpec == Init /\ [][FaultNext]_vars

(***************************************************************************)
(* A pipelining client: several call-tool requests in flight at once.      *)
(* Each request runs its own instance of the call-tool request handler;    *)
(* the instances take turns at their suspension points.                    *)
(***************************************************************************)
PipelineToolNames == {"get_patterns", "get_pattern", "get_builder_pattern"}
PipelineArguments == {JSArray, ArgsObject(JSString("builder-pattern"), FALSE)}

\* The transport hands the call-tool request numbered i to the server.
Pipeline_Receive(i, name, args) ==
  /\ Connected
  /\ inflight[i].pc = "idle"
  /\ inflight' = [inflight EXCEPT ![i] =
                    [pc |-> "called", req |-> [name |-> name, args |-> args],
                     pending |-> NoPending, resp |-> NoResponse, sent |-> 0]]
  /\ UNCHANGED <<fault, versionVars, registry, fundamentals, variant, gen, pc, req, pending, resp,
                 invoked, served, acc, ncalls, memo, procVars>>

\* The request handler of request i, up to its return or its first suspension.
Pipeline_Handler(i) ==
  /\ Alive
  /\ inflight[i].pc = "called"
  /\ LET r == inflight[i].req IN
     IF ~HasHandler(variant, r.name)
       THEN inflight' = [inflight EXCEPT ![i].pc = "threw",
                           ![i].resp = [kind |-> "exception",
                                        error |-> Error(<<"Tool '", r.name, "' not found">>)],
                           ![i].sent = @ + 1]
       ELSE LET o == InvokeHandler(variant, r.name, r.args) IN
            IF variant = "validated"
              THEN inflight' = [inflight EXCEPT ![i].pc = "awaiting", ![i].pending = o]
              ELSE inflight' = [inflight EXCEPT ![i].pc = "responded",
                                  ![i].resp = TryRespond(o), ![i].sent = @ + 1]
  /\ UNCHANGED <<fault, versionVars, registry, fundamentals, variant, gen, pc, req, pending, resp,
                 invoked, served, acc, ncalls, memo, procVars>>

\* A resumption that takes the promise of the lowest-numbered suspended request
Pipeline_Resume_FirstPending(i) ==
  /\ Alive
  /\ inflight[i].pc = "awaiting"
  /\ LET first == CHOOSE j \in 1..MaxInFlight :
                    /\ inflight[j].pc = "awaiting"
                    /\ \A k \in 1..(j - 1) : inflight[k].pc # "awaiting"
     IN inflight' = [inflight EXCEPT ![i].pc = "responded",
                       ![i].resp = TryRespond(Await(inflight[first].pending)),
                       ![i].pending = NoPending, ![i].sent = @ + 1]
  /\ UNCHANGED <<fault, versionVars, registry, fundamentals, variant, gen, pc, req, pending, resp,
                 invoked, served, acc, ncalls, memo, procVars>>

\* The validated server's handler of request i resumes after `await handler(...)`.
Pipeline_Resume(i) ==
  /\ Alive
  /\ inflight[i].pc = "awaiting"
  /\ inflight' = [inflight EXCEPT ![i].pc = "responded",
                    ![i].resp = TryRespond(Await(inflight[i].pending)),
                    ![i].pending = NoPending, ![i].sent = @ + 1]
  /\ UNCHANGED <<fault, versionVars, registry, fundamentals, variant, gen, pc, req, pending, resp,
                 invoked, served, acc, ncalls, memo, procVars>>

PipelineNext ==
  \/ \E i \in 1..MaxInFlight, name \in PipelineToolNames, args \in PipelineArguments :
       Pipeline_Receive(i, name, args)
  \/ \E i \in 1..MaxInFlight : Pipeline_Handler(i)
  \/ \E i \in 1..MaxInFlight : Pipeline_Resume(i)

PipelineSpec == Init /\ [][PipelineNext]_vars

(***************************************************************************)
(* The process (src/index.ts): main(), its catch callback and the SIGINT   *)
(* callback.  createServer and server.connect belong to code outside the   *)
(* repository's control (the SDK, the operating system), so each may       *)
(* succeed or fail.                                                        *)
(***************************************************************************)
StartupFailureInputs == {Error(<<"connect failed">>), JSString("EPIPE")}

\* const server = createServer(); const transport = new StdioServerTransport();
\* up to the call of server.connect(transport).
Main_CreateServer ==
  /\ Alive
  /\ main = "start"
  /\ IF variant = "parameterized"
       THEN /\ cachedVersion' = getVersion.cachedVersion
            /\ reads' = reads + getVersion.reads
            /\ stderr' = stderr \o getVersion.warned
       ELSE UNCHANGED <<cachedVersion, reads, stderr>>
  /\ \/ /\ main' = "connecting"
        /\ transport' = "created"
        /\ UNCHANGED rejection
     \/ \E error \in StartupFailureInputs :
          /\ main' = "rejected"
          /\ rejection' = error
          /\ UNCHANGED transport
  /\ UNCHANGED <<fault, inflight, manifest, registry, fundamentals, variant, gen, pc, req, pending,
                 resp, invoked, served, acc, ncalls, memo, sigintHandler, closers, signals,
                 exitCode>>

\* `await server.connect(transport)` settles; on success main() goes on to
\* process.on('SIGINT', ...) and returns.
Main_Connect ==
  /\ Alive
  /\ main = "connecting"
  /\ \/ /\ main' = "running"
        /\ transport' = "open"
        /\ sigintHandler' = TRUE
        /\ UNCHANGED rejection
     \/ \E error \in StartupFailureInputs :
          /\ main' = "rejected"
          /\ rejection' = error
          /\ UNCHANGED <<transport, sigintHandler>>
  /\ UNCHANGED <<fault, inflight, versionVars, registry, fundamentals, variant, gen, pc, req, pending, resp, invoked,
                 served, acc, ncalls, memo, closers, signals, exitCode, stderr>>

\* The catch callback exiting without writing the failure
MainCatch_Silent ==
  /\ Alive
  /\ main = "rejected"
  /\ exitCode' = Exited(1)
  /\ UNCHANGED <<fault, inflight, versionVars, registry, fundamentals, variant, gen, pc, req, pending, resp, invoked,
                 served, acc, ncalls, memo, main, rejection, transport, sigintHandler,
                 closers, signals, stderr>>

\* main().catch((error) => { console.error('Server error:', error); process.exit(1); })
MainCatch ==
  /\ Alive
  /\ main = "rejected"
  /\ stderr' = Append(stderr, <<JSString("Server error:"), rejection>>)
  /\ exitCode' = Exited(1)
  /\ UNCHANGED <<fault, inflight, versionVars, registry, fundamentals, variant, gen, pc, req, pending, resp, invoked,
                 served, acc, ncalls, memo, main, rejection, transport, sigintHandler,
                 closers, signals>>

\* A SIGINT is delivered.  With the callback registered, the callback runs up
\* to `await server.close()`; without it the signal's default disposition ends
\* the process.
Sigint ==
  /\ Alive
  /\ signals < MaxSigints
  /\ signals' = signals + 1
  /\ IF sigintHandler
       THEN /\ closers' = closers + 1
            /\ transport' = IF transport = "open" THEN "closing" ELSE transport
            /\ UNCHANGED exitCode
       ELSE /\ exitCode' = KilledBy("SIGINT")
            /\ UNCHANGED <<closers, transport>>
  /\ UNCHANGED <<fault, inflight, versionVars, registry, fundamentals, variant, gen, pc, req, pending, resp, invoked,
                 served, acc, ncalls, memo, main, rejection, sigintHandler, stderr>>

\* server.close() completes: the transport connection is closed.
CloseCompletes ==
  /\ Alive
  /\ transport = "closing"
  /\ transport' = "closed"
  /\ UNCHANGED <<fault, inflight, versionVars, registry, fundamentals, variant, gen, pc, req, pending, resp, invoked,
                 served, acc, ncalls, memo, main, rejection, sigintHandler, closers,
                 signals, exitCode, stderr>>

\* A SIGINT callback resumes after `await server.close()`: process.exit(0).
SigintExit ==
  /\ Alive
  /\ closers > 0
  /\ transport = "closed"
  /\ exitCode' = Exited(0)
  /\ UNCHANGED <<fault, inflight, versionVars, registry, fundamentals, variant, gen, pc, req, pending, resp, invoked,
                 served, acc, ncalls, memo, main, rejection, transport, sigintHandler,
                 closers, signals, stderr>>

\* The process has just been started.
LifecycleInit ==
  /\ Loaded
  /\ main = "start"
  /\ transport = "none"
  /\ sigintHandler = FALSE
  /\ manifest = PackageJson
  /\ cachedVersion = Undefined
  /\ reads = 0

LifecycleNext ==
  \/ Main_CreateServer
  \/ Main_Connect
  \/ MainCatch
  \/ Sigint
  \/ CloseCompletes
  \/ SigintExit
  \/ \E name \in HistoryToolNames, args \in HistoryArguments : ReceiveCallTool(name, args)
  \/ ListTools
  \/ CallToolRequestHandler
  \/ ResumeCallTool

LifecycleSpec == LifecycleInit /\ [][LifecycleNext]_vars

(***************************************************************************)
(* getVersion() in a process whose manifest file can be anything and can   *)
(* be rewritten between calls (src/unnamed/part_000)                       *)
(***************************************************************************)
\* what the file at packageJsonPath can hold
ManifestInputs ==
  { Unreadable,
    InvalidJSON,
    JSONText(Null),
    JSONText(JSNumber(1)),
    JSONText(PackageObject(Undefined)),
    JSONText(PackageObject(JSNumber(2))),
    JSONText(PackageObject(JSString(""))),
    JSONText(PackageObject(JSString("1.2.3"))),
    PackageJson }

\* A caller (createServer of part_002 first) calls getVersion(); acc keeps the
\* manifest and the module variable the call found, and its outcome.
CallGetVersion ==
  /\ ncalls < MaxCalls
  /\ acc' = [fn |-> "getVersion", arg |-> "", file |-> manifest,
             cached |-> cachedVersion, outcome |-> getVersion.outcome]
  /\ cachedVersion' = getVersion.cachedVersion
  /\ reads' = reads + getVersion.reads
  /\ stderr' = stderr \o getVersion.warned
  /\ ncalls' = ncalls + 1
  /\ UNCHANGED <<fault, inflight, manifest, registry, fundamentals, variant, gen, pc, req,
                 pending, resp, invoked, served, memo, main, rejection, transport,
                 sigintHandler, closers, signals, exitCode>>

\* The file at packageJsonPath is rewritten, removed or restored.
ManifestChanges(file) ==
  /\ manifest # file
  /\ manifest' = file
  /\ UNCHANGED <<fault, inflight, cachedVersion, reads, registry, fundamentals, variant, gen,
                 pc, req, pending, resp, invoked, served, acc, ncalls, memo, procVars>>

\* The module of part_000 has just been loaded by the server of part_002.
VersionInit ==
  /\ Loaded
  /\ variant = "parameterized"
  /\ main = "start"
  /\ transport = "none"
  /\ sigintHandler = FALSE
  /\ manifest \in ManifestInputs
  /\ cachedVersion = Undefined
  /\ reads = 0

VersionNext ==
  \/ CallGetVersion
  \/ \E file \in ManifestInputs : ManifestChanges(file)

VersionSpec == VersionInit /\ [][VersionNext]_vars

(***************************************************************************)
(* Properties                                                              *)
(***************************************************************************)
RegisteredIds == Range(ObjectKeys(registry))
Done == pc \in {"responded", "threw"}
IsEnvelope == resp.kind = "envelope"
\* the envelope {content: [{type: 'text', text: JSON of {error: message}}], isError: true}
ErrorEnvelopeOf(message) ==
  [content |-> << [type |-> "text", text |-> [kind |-> "object", of |-> [error |-> message]]] >>,
   isError |-> TRUE]
IsErrorEnvelope(e) ==
  /\ DOMAIN e = {"content", "isError"}
  /\ e.isError = TRUE
  /\ Len(e.content) = 1
  /\ e.content[1].type = "text"
  /\ e.content[1].text.kind = "object"
  /\ DOMAIN e.content[1].text.of = {"error"}
IsSuccessEnvelope(e) ==
  /\ DOMAIN e = {"content"}
  /\ Len(e.content) = 1
  /\ e.content[1].type = "text"

\* C1: in every server variant, a call-tool request whose tool name has no
\* entry in the handler table ends in an envelope that carries an {error}
\* payload with isError set; no exception leaves the request handler.
C1_UnknownToolGetsErrorEnvelope ==
  (Done /\ ~HasHandler(variant, req.name)) =>
     /\ pc = "responded"
     /\ IsEnvelope
     /\ IsErrorEnvelope(resp.envelope)

\* C2: for every string id that is not an element of getPatternIds(),
\* getDetailedPattern(id), getPatternOverview(id) and handleGetPattern(id)
\* each fail with an error instead of returning a value.
C2_UnknownIdFails ==
  (/\ acc.fn \in {"getDetailedPattern", "getPatternOverview", "handleGetPattern"}
   /\ acc.arg \notin Range(getPatternIds.value))
     => acc.outcome.kind = "throw"

\* The outcome of running the handler of the current request to completion.
HandlerCompletion == Await(InvokeHandler(variant, req.name, req.args))

C4_BadArguments ==
  \/ req.args.t = "undefined"
  \/ req.args.t = "object" /\ req.args.patternId.t # "string"

C4_PatternIdRequired ==
  (/\ variant = "parameterized"
   /\ req.name = "get_pattern"
   /\ Done
   /\ C4_BadArguments)
     => /\ IsEnvelope
        /\ resp.envelope = ErrorEnvelopeOf(<<"patternId is required">>)
        /\ invoked = <<>>

C4_Witness ==
  /\ variant = "parameterized"
  /\ req.name = "get_pattern"
  /\ pc = "responded"
  /\ req.args = ArgsObject(JSNumber(42), FALSE)
  /\ IsErrorEnvelope(resp.envelope)

\* C5: in the parameterized server, get_pattern called with a string patternId
\* that is not a registered pattern id yields a response with isError set whose
\* error text contains that patternId; no failure escapes the request handler.
C5_UnknownPatternIdNamedInError ==
  (/\ variant = "parameterized"
   /\ req.name = "get_pattern"
   /\ Done
   /\ req.args.t = "object"
   /\ req.args.patternId.t = "string"
   /\ req.args.patternId.s \notin RegisteredIds)
     => /\ IsEnvelope
        /\ IsErrorEnvelope(resp.envelope)
        /\ req.args.patternId.s \in Range(resp.envelope.content[1].text.of.error)

\* registry[id].detailed, for a registered id
StoredDetailed(id) == GetProperty(registry, id).value.detailed
\* value is the document stored with the member id added
IsStoredWithId(value, stored, id) ==
  /\ DOMAIN value = DOMAIN stored \cup {"id"}
  /\ value.id = id
  /\ \A f \in DOMAIN stored : value[f] = stored[f]

\* C6: for every id in getPatternIds(), getPatternOverview(id) succeeds, and
\* getDetailedPattern(id) and handleGetPattern(id).pattern equal the stored
\* detailed document of that key with the field id added, equal to the id.
C6_RegistryCompleteness ==
  acc.arg \in Range(getPatternIds.value) =>
    /\ acc.fn = "getPatternOverview" => acc.outcome.kind = "return"
    /\ acc.fn = "getDetailedPattern" =>
         /\ acc.outcome.kind = "return"
         /\ IsStoredWithId(acc.outcome.value, StoredDetailed(acc.arg), acc.arg)
    /\ acc.fn = "handleGetPattern" =>
         /\ acc.outcome.kind = "return"
         /\ DOMAIN acc.outcome.value = {"pattern"}
         /\ IsStoredWithId(acc.outcome.value.pattern, StoredDetailed(acc.arg), acc.arg)

C6_Witness ==
  /\ acc.fn = "handleGetPattern"
  /\ acc.arg = "builder-pattern"
  /\ acc.outcome.kind = "return"
  /\ acc.outcome.value.pattern.id = "builder-pattern"

ExpectedPatterns ==
  {"container-presentational", "render-props", "compound-component",
   "higher-order-component", "dependency-injection", "service-layer", "adapter-pattern",
   "declarative-programming", "prop-drilling-solutions", "builder-pattern",
   "factory-pattern", "strategy-pattern"}

\* C7: the registry contains exactly 12 patterns: getPatternIds() has length
\* 12, PATTERN_REGISTRY has an entry for each expected pattern, strategy-pattern
\* included, and the patternIds listed by handleGetPatterns contain all twelve.
C7_TwelvePatterns ==
  /\ Len(getPatternIds.value) = 12
  /\ \A id \in ExpectedPatterns : GetProperty(registry, id).t = "definition"
  /\ acc.fn = "handleGetPatterns" =>
       ExpectedPatterns \subseteq
         {acc.outcome.value.patterns[i].patternId :
            i \in 1..Len(acc.outcome.value.patterns)}

\* C8: for every registered pattern p and every entry r of p's
\* relatedPatterns, r is an element of getPatternIds() and differs from p's id.
C8_ReferentialIntegrity ==
  /\ \A i \in 1..Len(registry) :
       \A r \in Range(registry[i].value.detailed.relatedPatterns) :
          r \in Range(getPatternIds.value) /\ r # registry[i].key
  /\ (acc.fn = "getDetailedPattern" /\ acc.arg \in Range(getPatternIds.value)) =>
       \A r \in Range(acc.outcome.value.relatedPatterns) :
          r \in Range(getPatternIds.value) /\ r # acc.outcome.value.id

C8_Witness ==
  /\ acc.fn = "getDetailedPattern"
  /\ acc.arg = "factory-pattern"
  /\ acc.outcome.kind = "return"
  /\ Len(acc.outcome.value.relatedPatterns) = 3

\* C9: getAllPatternOverviews() returns exactly one entry per registry key in
\* insertion order: its length is getPatternIds().length, the i-th entry's id
\* is the i-th element of getPatternIds(), and each entry's name, description
\* and whenToUse are the non-empty strings of that pattern's overview.
C9_ListingTotalAndOrdered ==
  acc.fn = "getAllPatternOverviews" =>
    LET overviews == acc.outcome.value
        ids == getPatternIds.value IN
    /\ acc.outcome.kind = "return"
    /\ Len(overviews) = Len(ids)
    /\ Len(overviews) > 0
    /\ \A i \in 1..Len(overviews) :
         LET overview == GetProperty(registry, ids[i]).value.overview IN
         /\ overviews[i].id = ids[i]
         /\ overviews[i].name = overview.name /\ overview.name # ""
         /\ overviews[i].description = overview.description /\ overview.description # ""
         /\ overviews[i].whenToUse = overview.whenToUse /\ overview.whenToUse # ""
    /\ [i \in 1..Len(overviews) |-> overviews[i].id] =
         << "container-presentational", "render-props", "compound-component",
            "higher-order-component", "dependency-injection", "service-layer",
            "adapter-pattern", "declarative-programming", "prop-drilling-solutions",
            "builder-pattern", "factory-pattern" >>

C9_Witness ==
  /\ acc.fn = "getAllPatternOverviews"
  /\ acc.outcome.kind = "return"
  /\ Len(acc.outcome.value) = 11

\* The value a call of handleGetPatterns hands over: returned by the
\* synchronous version, the resolved value of the async version.
ListingOf(o) == Await(o).value

C11_ListingUsableWithoutWaiting ==
  acc.fn \in {"handleGetPatterns", "handleGetPatternsAsync"} =>
    LET result == acc.outcome.value IN
    /\ acc.outcome.kind = "return"
    /\ ~IsPromise(result)
    /\ Len(result.patterns) > 0
    /\ \A i \in 1..Len(result.patterns) :
         {"name", "description", "whenToUse", "patternId"} \subseteq DOMAIN result.patterns[i]
    /\ {"nextStep", "example"} \subseteq DOMAIN result.usage

\* An example side (bad or good) with a title, a description and a non-empty
\* code string.
HasTitleDescriptionCode(side) ==
  /\ {"title", "description", "code"} \subseteq DOMAIN side
  /\ side.code.length > 0

\* C12: for every id in getPatternIds(), every element of
\* getDetailedPattern(id).examples has a title, a description and a comparison
\* object with members bad and good, each of which has a title, a description
\* and a non-empty code string.
C12_ExamplesHaveComparison ==
  (acc.fn = "getDetailedPattern" /\ acc.arg \in Range(getPatternIds.value)) =>
    /\ acc.outcome.kind = "return"
    /\ \A i \in 1..Len(acc.outcome.value.examples) :
         LET example == acc.outcome.value.examples[i] IN
         /\ {"title", "description", "comparison"} \subseteq DOMAIN example
         /\ {"bad", "good"} \subseteq DOMAIN example.comparison
         /\ HasTitleDescriptionCode(example.comparison.bad)
         /\ HasTitleDescriptionCode(example.comparison.good)

\* The tool names the README lists under "Available Tools".
ReadmeTools ==
  << "get_patterns",
     "get_container_presentational_pattern",
     "get_render_props_pattern",
     "get_compound_component_pattern",
     "get_higher_order_component_pattern",
     "get_dependency_injection_pattern",
     "get_service_layer_pattern",
     "get_adapter_pattern",
     "get_declarative_programming_pattern",
     "get_prop_drilling_solutions_pattern",
     "get_builder_pattern",
     "get_factory_pattern",
     "get_strategy_pattern" >>

\* the servers that expose one tool per pattern
FineGrained == variant \in {"validated", "finegrained"}
\* the names of the descriptors of a list-tools result
ListedNames(result) == {result.tools[i].name : i \in 1..Len(result.tools)}

\* C13: every tool name the README lists (get_patterns and the twelve
\* per-pattern tools, get_strategy_pattern included) is in the list-tools
\* response of a fine-grained server and has a handler in its handler table;
\* calling a per-pattern tool, without arguments or with an arguments object,
\* makes its handler return that pattern's detailed document.
C13_ReadmeToolsListedAndCallable ==
  /\ (pc = "listed" /\ FineGrained) =>
       Range(ReadmeTools) \subseteq ListedNames(resp.result)
  /\ (Done /\ FineGrained /\ req.name \in Range(ReadmeTools) \ {"get_patterns"}
        /\ validateArgsObject(OrEmptyObject(req.args))) =>
       /\ HasHandler(variant, req.name)
       /\ HandlerCompletion.kind = "return"
       /\ \E id \in RegisteredIds :
            IsStoredWithId(HandlerCompletion.value.pattern, StoredDetailed(id), id)

\* C14: for every registered tool in every server variant, the response is
\* built from the completed handler: the success envelope's text is the JSON of
\* the value the handler returned or, for an async handler, resolved with (never
\* of the promise itself), and a failure of the handler is reported in the
\* error envelope.
C14_ResponseAfterHandlerCompleted ==
  (pc = "responded" /\ HasHandler(variant, req.name)) =>
     /\ IsEnvelope
     /\ HandlerCompletion.kind = "return" =>
          /\ ~IsPromise(HandlerCompletion.value)
          /\ resp.envelope = SuccessEnvelope(HandlerCompletion.value)
     /\ HandlerCompletion.kind = "throw" => IsErrorEnvelope(resp.envelope)

\* C15: a call of the quality-fundamentals tool, whatever arguments come with
\* it, does not fail and returns the whole static document: the success
\* envelope's text is the JSON of the document, whose principles member has
\* exactly the keys readability, predictability, cohesion and coupling, each
\* with a non-empty concepts list.
C15_FundamentalsToolTotal ==
  (Done /\ req.name = "get_code_quality_fundamentals" /\ HasHandler(variant, req.name)) =>
     /\ pc = "responded"
     /\ IsEnvelope
     /\ resp.envelope = SuccessEnvelope(codeQualityFundamentals)
     /\ LET document == resp.envelope.content[1].text.of IN
        /\ DOMAIN document.principles =
             {"readability", "predictability", "cohesion", "coupling"}
        /\ \A p \in DOMAIN document.principles :
             Len(document.principles[p].concepts) > 0

C15_Witness ==
  /\ pc = "responded"
  /\ req.name = "get_code_quality_fundamentals"
  /\ req.args = JSArray
  /\ variant = "parameterized"
  /\ resp.envelope = SuccessEnvelope(codeQualityFundamentals)

\* C16: every list-tools request returns the same sequence of tool descriptors
\* in the same order as any earlier list-tools request, whatever requests came
\* in between, and the sequence has a descriptor named get_patterns whose input
\* schema is {type: 'object'} with no properties member.
C16_ListingStable ==
  pc = "listed" =>
    /\ resp.kind = "result"
    /\ memo.method = "tools/list" => resp = memo.resp
    /\ \E i \in 1..Len(resp.result.tools) :
         /\ resp.result.tools[i].name = "get_patterns"
         /\ resp.result.tools[i].inputSchema = [type |-> "object"]

C16_Witness ==
  /\ pc = "listed"
  /\ memo.method = "tools/list"
  /\ memo.at = 1
  /\ served = 3
  /\ resp = memo.resp
  /\ Len(resp.result.tools) = 13

\* C17: the response to a tool call depends only on the tool name and the
\* arguments: a call with the same name and arguments as an earlier call has
\* the same outcome (the same envelope or, for a name without handler, the same
\* error), whatever requests came in between.
C17_SameRequestSameResponse ==
  (Done /\ memo.method = "tools/call" /\ memo.req = req) => resp = memo.resp

C17_Witness ==
  /\ Done
  /\ memo.method = "tools/call"
  /\ memo.req = req
  /\ memo.at = 1
  /\ served = 3
  /\ req.name = "get_pattern"
  /\ variant = "parameterized"
  /\ IsEnvelope
  /\ IsSuccessEnvelope(resp.envelope) /\ ~IsErrorEnvelope(resp.envelope)
  /\ resp = memo.resp

\* C18: a SIGINT received at any point of the process's life leads to the
\* transport connection being closed and then to exit with status 0: whenever
\* the process has ended after a SIGINT was delivered, it ended by
\* process.exit(0) and the connection was closed before.
C18_SigintClosesThenExitsZero ==
  (signals > 0 /\ ~Alive) =>
     /\ exitCode = Exited(0)
     /\ transport = "closed"

\* what the catch callback of main() writes for the failure main() was
\* rejected with
LoggedFailure == << <<JSString("Server error:"), rejection>> >>

\* C19: if creating the server or connecting the transport fails, the failure
\* is written to the error stream and the process exits with status 1: a
\* process whose main() was rejected ends, unless a signal ends it first, by
\* process.exit(1) with the failure written, and status 1 has no other cause.
C19_StartupFailureLoggedThenExitOne ==
  /\ (main = "rejected" /\ ~Alive /\ exitCode # KilledBy("SIGINT")) =>
        /\ exitCode = Exited(1)
        /\ stderr = LoggedFailure
  /\ exitCode = Exited(1) =>
        /\ main = "rejected"
        /\ rejection \in StartupFailureInputs
        /\ stderr = LoggedFailure

C19_Witness ==
  /\ main = "rejected"
  /\ transport = "created"
  /\ rejection = Error(<<"connect failed">>)
  /\ exitCode = Exited(1)
  /\ stderr = LoggedFailure

\* C20: no tool invocation, whether it ends in a success or an error envelope,
\* and no list-tools request changes the pattern registry or the
\* quality-fundamentals document: after any sequence of requests both equal
\* their values at process start.
C20_RegistryAndFundamentalsUnchanged ==
  /\ registry = PATTERN_REGISTRY
  /\ fundamentals = codeQualityFundamentals

C20_Witness ==
  /\ pc = "responded"
  /\ served = 3
  /\ req.name = "get_builder_pattern"
  /\ IsErrorEnvelope(resp.envelope)
  /\ registry = PATTERN_REGISTRY
  /\ fundamentals = codeQualityFundamentals

\* What the call-tool request handler answers to request r when no other
\* request is in flight.
AloneResponse(r) ==
  IF ~HasHandler(variant, r.name)
    THEN [kind |-> "exception", error |-> Error(<<"Tool '", r.name, "' not found">>)]
    ELSE LET o == InvokeHandler(variant, r.name, r.args) IN
         TryRespond(IF variant = "validated" THEN Await(o) ELSE o)

\* C21: when several tool calls are in flight and their handler steps
\* interleave in any order, each request receives exactly one response (none
\* while its handler has not finished), and it is the response the request
\* would receive if it ran alone.
C21_ConcurrentCallsIndependent ==
  \A i \in 1..MaxInFlight :
    /\ inflight[i].pc \in {"responded", "threw"} =>
         /\ inflight[i].sent = 1
         /\ inflight[i].resp = AloneResponse(inflight[i].req)
    /\ inflight[i].pc \notin {"responded", "threw"} =>
         /\ inflight[i].sent = 0
         /\ inflight[i].resp = NoResponse

C21_Witness ==
  /\ variant = "validated"
  /\ inflight[1].pc = "awaiting"
  /\ inflight[2].pc = "responded"
  /\ inflight[1].req # inflight[2].req
  /\ inflight[2].resp = AloneResponse(inflight[2].req)
  /\ IsSuccessEnvelope(inflight[2].resp.envelope) /\ ~IsErrorEnvelope(inflight[2].resp.envelope)

\* the message of the {error: message} payload of an error envelope
ErrorMessageOf(e) == e.content[1].text.of.error

\* C22: an exception raised while a handler runs that is neither a not-found
\* nor an invalid-argument failure is caught at the dispatch boundary, logged,
\* and reported as a generic error message that has none of the exception's own
\* text, and the process keeps serving.
C22_UnexpectedErrorGenericAndLogged ==
  (pc = "responded" /\ fault # NoFault) =>
     /\ IsEnvelope
     /\ IsErrorEnvelope(resp.envelope)
     /\ fault.instanceOfError =>
          Range(ErrorMessageOf(resp.envelope)) \cap Range(fault.message) = {}
     /\ Len(stderr) > 0
     /\ Connected

\* C23: get_patterns ignores its arguments: whatever arguments value the
\* request carries (absent, an object with or without fields, a non-object
\* such as an array), the call ends in the success envelope it ends in without
\* arguments.
C23_GetPatternsIgnoresArguments ==
  (Done /\ req.name = "get_patterns") =>
     /\ pc = "responded"
     /\ IsEnvelope
     /\ IsSuccessEnvelope(resp.envelope) /\ ~IsErrorEnvelope(resp.envelope)
     /\ resp = AloneResponse([name |-> "get_patterns", args |-> Undefined])

\* the per-pattern tools of a fine-grained server's handler table
PerPatternTools ==
  Range(toolHandlerNames(variant)) \ {"get_patterns", "get_code_quality_fundamentals"}
\* what the handler registered under a per-pattern tool completes with
ToolCompletion(name) == Await(FineGrainedHandler(name))
\* the descriptor a list-tools result carries for a tool name
ListedDescriptors(result, name) ==
  {result.tools[i] : i \in {j \in 1..Len(result.tools) : result.tools[j].name = name}}

ToolNameStrings ==
  Range(toolHandlerNames("finegrained"))
    \cup {"get_adapter_pattern_pattern", "get_builder_pattern_pattern",
          "get_factory_pattern_pattern"}
\* the toolName values the get_patterns handler of a fine-grained server reports
ReportedToolNames ==
  LET patterns == Await(FineGrainedHandler("get_patterns")).value.patterns IN
  {n \in ToolNameStrings : \E i \in 1..Len(patterns) : patterns[i].toolName = Chars(n)}

\* C25: in a fine-grained server every toolName that get_patterns reports is
\* the name of a descriptor of the list-tools result and a key of the handler
\* table, and a call-tool request carrying a reported toolName never ends in
\* the tool-not-found failure.
C25_ReportedToolNamesCallable ==
  FineGrained =>
    /\ ReportedToolNames \subseteq ListedNames(ListToolsRequestHandler(variant))
    /\ ReportedToolNames \subseteq Range(toolHandlerNames(variant))
    /\ (Done /\ req.name \in ReportedToolNames) => resp.kind # "exception"

\* the keys of capabilities.tools of variant v
CapabilityKeys(v) == {capabilitiesTools(v)[i].key : i \in 1..Len(capabilitiesTools(v))}

\* C26: in every server variant the names of the descriptors of the list-tools
\* result, the keys of the handler table and the keys of capabilities.tools
\* are the same set, each capability is registered under its descriptor's
\* name, and a list-tools response carries exactly those names.
C26_ToolSurfaceConsistent ==
  /\ ListedNames(ListToolsRequestHandler(variant)) = Range(toolHandlerNames(variant))
  /\ CapabilityKeys(variant) = Range(toolHandlerNames(variant))
  /\ \A i \in 1..Len(capabilitiesTools(variant)) :
       capabilitiesTools(variant)[i].value.name = capabilitiesTools(variant)[i].key
  /\ pc = "listed" =>
       /\ ListedNames(resp.result) = Range(toolHandlerNames(variant))
       /\ ListedNames(resp.result) = CapabilityKeys(variant)
       /\ \A i \in 1..Len(resp.result.tools) :
            HasHandler(variant, resp.result.tools[i].name)

C26_Witness ==
  /\ variant = "finegrained"
  /\ pc = "listed"
  /\ Cardinality(ListedNames(resp.result)) = Len(toolHandlerNames(variant))
  /\ "get_code_quality_fundamentals" \in
       ListedNames(resp.result) \cap CapabilityKeys(variant)
  /\ HasHandler(variant, "get_code_quality_fundamentals")

\* C27: in the server that wraps its handlers with createValidatedHandler, a
\* call of a registered tool whose arguments are undefined or null is answered
\* as the same call with arguments {} is, with a success envelope, after the
\* wrapped handler ran; a call whose arguments are an array or a primitive is
\* answered with the error envelope 'Invalid arguments: expected object', and
\* the wrapped handler is not invoked.
C27_ArgumentsValidated ==
  (Done /\ variant = "validated" /\ HasHandler(variant, req.name)) =>
     /\ req.args.t \in {"undefined", "null"} =>
          /\ resp = AloneResponse([name |-> req.name, args |-> ArgsObject(Undefined, FALSE)])
          /\ IsEnvelope
          /\ IsSuccessEnvelope(resp.envelope) /\ ~IsErrorEnvelope(resp.envelope)
          /\ invoked # <<>>
     /\ req.args.t \notin {"undefined", "null", "object"} =>
          /\ IsEnvelope
          /\ resp.envelope = ErrorEnvelopeOf(<<"Invalid arguments: expected object">>)
          /\ invoked = <<>>

C27_Witness ==
  /\ variant = "validated"
  /\ pc = "responded"
  /\ req.name = "get_render_props_pattern"
  /\ req.args = JSArray
  /\ resp.envelope = ErrorEnvelopeOf(<<"Invalid arguments: expected object">>)
  /\ invoked = <<>>

\* C28: in the server that wraps its handlers with createValidatedHandler, a
\* call whose wrapped handler fails with an Error of message m is answered
\* with the envelope whose text is the JSON of
\* {error: 'Handler execution failed: ' + m}, and one whose handler fails with
\* a value that is not an Error with the JSON of
\* {error: 'Handler execution failed with unknown error'}; isError is true in
\* both.
C28_HandlerFailureWrapped ==
  (pc = "responded" /\ variant = "validated" /\ fault # NoFault) =>
     /\ IsEnvelope
     /\ resp.envelope.isError = TRUE
     /\ fault.instanceOfError =>
          resp.envelope = ErrorEnvelopeOf(<<"Handler execution failed: ">> \o fault.message)
     /\ ~fault.instanceOfError =>
          resp.envelope = ErrorEnvelopeOf(<<"Handler execution failed with unknown error">>)

C28_Witness ==
  /\ pc = "responded"
  /\ variant = "validated"
  /\ fault # NoFault
  /\ fault.instanceOfError
  /\ fault.name = "TypeError"
  /\ resp.envelope = ErrorEnvelopeOf(<<"Handler execution failed: ">> \o fault.message)

\* the manifest can be read and parsed and its version member is a string
HasStringVersion(file) ==
  /\ file.t = "text"
  /\ file.valid
  /\ file.value.t = "object"
  /\ file.value.version.t = "string"

\* C29: getVersion() never throws; a call that finds no cached version
\* returns the manifest's version member when the manifest can be read and
\* parsed and that member is a string, and "0.0.0" in every other case (file
\* unreadable, invalid JSON, version missing or not a string); a call that
\* finds a cached version returns it.
C29_GetVersionTotal ==
  acc.fn = "getVersion" =>
    /\ acc.outcome.kind = "return"
    /\ acc.outcome.value.t = "string"
    /\ ~ToBoolean(acc.cached) =>
         acc.outcome.value = IF HasStringVersion(acc.file)
                               THEN acc.file.value.version
                               ELSE JSString("0.0.0")
    /\ ToBoolean(acc.cached) => acc.outcome.value = acc.cached

C29_Witness ==
  /\ acc.fn = "getVersion"
  /\ acc.file = InvalidJSON
  /\ acc.cached = Undefined
  /\ acc.outcome.kind = "return"
  /\ acc.outcome.value = JSString("0.0.0")
  /\ Len(stderr) = 1

\* C30: after its first return, every later call of getVersion() returns the
\* value the call before it returned and does not read the manifest, whatever
\* that value was and whether or not the manifest has changed since.
C30_VersionReadOnce ==
  [][(acc.fn = "getVersion" /\ ncalls' = ncalls + 1) =>
       /\ acc'.outcome.value = acc.outcome.value
       /\ reads' = reads]_vars
====
